---- MODULE Spec2Model ----
(***************************************************************************)
(* Model of the Kocom wallpad integration (custom_components/kocom_wallpad):*)
(* the framing buffer and packet dispatch of controller.py, and the command *)
(* queue, sender loop, pending waiters and shutdown of gateway.py.          *)
(*                                                                          *)
(* Specifications:                                                          *)
(*   SpecFrame  streams of valid frames fed to feed() in arbitrary chunks   *)
(*   SpecSplit  streams holding one arbitrary (valid, suffix-broken or      *)
(*              checksum-broken) frame, fed to feed() in one call           *)
(*   Spec       the gateway: callers, queue, sender loop, reader, stop      *)
(*   SpecQueue  the gateway with enough callers to fill the queue           *)
(*   SpecEncode the gateway with commands generate_command raises for       *)
(*   SpecSwitch light status frames decoded into the registry, and light    *)
(*              commands encoded from it                                    *)
(*   SpecThermo thermostat status frames decoded by _handle_thermostat      *)
(*   SpecLive   the gateway with the sender task scheduled fairly           *)
(*   SpecConn   the transport driven by the reader loop and by a sender     *)
(*              whose commands are never confirmed; SpecConnFair adds the   *)
(*              scheduling of the tasks                                     *)
(*   SpecBackoff the transport with an owner that calls reconnect() and     *)
(*              close() at any time                                         *)
(*   SpecNoise  streams of frames and line noise fed to feed()              *)
(*   SpecElevator elevator frames decoded by _handle_elevator               *)
(*   SpecIdle   the idle wait of the sender loop against the clock          *)
(*   SpecRace   the sender loop against reports processed by the reader     *)
(*   SpecStop   the transport with async_stop cancelling the tasks          *)
(*   SpecNotify decoded states through on_device_state: registry and        *)
(*              dispatcher signals                                          *)
(***************************************************************************)
EXTENDS Integers, Sequences, FiniteSets, TLC

VARIABLES
    \* ---- controller.py: KocomController framing state
    stream,      \* the bytes the transport will deliver (input, fixed at Init)
    pos,         \* how many bytes of stream have been passed to feed()
    rx_buf,      \* KocomController._rx_buf: the buffered bytes, oldest first
    out,         \* every packet _split_buf has returned, in order
    handled,     \* every packet that passed _dispatch_packet's checksum gate
    \* ---- gateway.py: callers of async_send_action (call ids 1 .. Len(cmd))
    cmd,         \* per call: the (key, action) it was called with
    fut,         \* per call: _CmdItem.future ("none": rejected, no item made)
    ret,         \* per call: "blocked", the value returned, or "raised"
    nset,        \* per call: how many times the future was given a result
    matched,     \* per call: a matching state was processed in its window
    \* ---- gateway.py: KocomGateway
    tx_queue,    \* _tx_queue: call ids, oldest first
    pendings,    \* _pendings: the waiters, each [owner, key, action]
    registry,    \* registry._states: key -> "None" | "True" | "False"
    connected,   \* conn._is_connected()
    failures,    \* _consecutive_failures
    stop_pc,     \* async_stop: "running", "sender_cancelled", "stopped"
    calls_at_stop, \* number of calls made when async_stop finished
    \* ---- gateway.py: the _sender_loop task
    s_pc,        \* "get", "idle_wait", "drain", "confirm", "gap", "cancelled"
    s_item,      \* the call id being processed, 0 if none
    s_attempt,   \* the loop variable attempt
    s_wfut,      \* the future of the waiter of this attempt
    s_sends,     \* conn.send calls made for the item taken last
    s_gaps,      \* sleep(SEND_RETRY_GAP) calls made for the item taken last
    taken,       \* the call ids in the order _tx_queue.get() returned them
    \* ---- controller.py: light status decoding and command encoding
    sw_op,       \* the last status frame decoded or switch command encoded
    \* ---- controller.py: thermostat decoding
    th_storage,  \* _device_storage: the _thermo_step, _thermo_target and
                 \* _thermo_current entries of the thermostat (tenths of a degree)
    th_last,     \* the DeviceState decoded last: state and attribute values
    th_packet,   \* the thermostat packet decoded last (<<>>: none yet)
    fn_op,       \* the last application of build_expectation or of
                 \* generate_command: its arguments and what it returned
    ereg,        \* EntityRegistry: _states, _shadow and by_platform
    th_half,     \* 0: no frame of a 21.5 setpoint decoded yet, 1: the frame
                 \* decoded last was the first one, 2: frames were decoded since
    \* ---- controller.py: elevator decoding
    el_storage,  \* _device_storage.get("available_floor", False)
    el_states,   \* the DeviceStates of the elevator frame decoded last
    el_packet,   \* the elevator packet decoded last (<<>>: none yet)
    el_known,    \* an elevator frame decoded so far carried a floor other
                 \* than "unknown"
    \* ---- the idle wait of _sender_loop; times in ticks of 0.01 s
    i_pc,        \* "attempt": at "t0 = ...time()", "sleep": in sleep(0.01),
                 \* "drain": in conn.send, "confirm": in _wait_for_confirmation
    idle_since,  \* conn.idle_since(), counted up to IDLE_GAP
    waited,      \* loop.time() - t0, counted up to IDLE_WAIT + 2
    sleep_left,  \* ticks until sleep(0.01) returns
    \* ---- history of the reports processed outside a confirmation wait
    rep,         \* pairs <<c, phase>>: a state satisfying the predicate of
                 \* pending call c was processed while c was queued, in the
                 \* idle wait or in a retry gap ("early"), or while conn.send
                 \* had written c's packet and had not returned ("drain")
    \* ---- the dispatcher signals on_device_state sends
    disp,        \* new: per identity, the new-device signals sent so far;
                 \* last: the decode processed last, what the registry held
                 \* for its identity, and the signals it sent
    \* ---- transport.py: AsyncConnection, and the _read_loop task
    link,        \* the remote end: "up", or "dead" (reads return EOF)
    r_pc,        \* _read_loop: "loop", "in_reconnect", "sleep5"
    rc_new,      \* origins of the reconnect() calls created and not yet run
    rc_active,   \* the reconnect() calls past the lock: [origin, pc, delay, h]
    rc_lock,     \* _reconnect_lock.locked()
    last_reconn_delay, \* _last_reconn_delay
    rc_hist,     \* per reconnect sequence run: the delay slept and the result
    eof_owed,    \* recv read EOF on a connected transport and no reconnect
                 \* sequence has started since
    esc_owed,    \* the failure count reached the limit on a connected
                 \* transport and no reconnect sequence has started since
    rc_skipped   \* a reconnect() call has returned because the lock was held

frameVars == <<stream, pos, rx_buf, out, handled>>
callVars == <<cmd, fut, ret, nset, matched>>
gwVars == <<tx_queue, pendings, registry, connected, failures, stop_pc, calls_at_stop>>
senderVars == <<s_pc, s_item, s_attempt, s_wfut, s_sends, s_gaps, taken>>

elVars == <<el_storage, el_states, el_packet, el_known>>
idleVars == <<i_pc, idle_since, waited, sleep_left>>
auxVars == <<elVars, idleVars, rep, disp>>
decVars == <<sw_op, th_storage, th_last, th_half, th_packet, fn_op, ereg, auxVars>>
rcVars == <<link, r_pc, rc_active, rc_lock, last_reconn_delay, rc_hist, eof_owed,
            rc_skipped>>
extVars == <<decVars, rcVars, rc_new, esc_owed>>

vars == <<frameVars, callVars, gwVars, senderVars, extVars>>

(***************************************************************************)
(* const.py                                                                 *)
(***************************************************************************)
PACKET_PREFIX == <<170, 85>>     \* bytes([0xAA, 0x55])
PACKET_SUFFIX == <<13, 13>>      \* bytes([0x0D, 0x0D])
PACKET_LEN == 21
RX_CAPACITY == 4096              \* RingBuffer(4096)

(***************************************************************************)
(* Bounds of the framing specifications                                     *)
(***************************************************************************)
MaxFrames == 2       \* SpecFrame: frames per stream
MaxTail == 1         \* SpecSplit: valid frames that follow the middle frame

\* 0-based indexing and slicing, as in the Python source
At(s, i) == s[i + 1]
Slice(s, a, b) == SubSeq(s, a + 1, b)     \* s[a:b]

RECURSIVE SumSeq(_)
SumSeq(s) == IF s = <<>> THEN 0 ELSE Head(s) + SumSeq(Tail(s))

\* KocomController._checksum
checksum(buf) == SumSeq(buf) % 256

(***************************************************************************)
(* RingBuffer: the content is kept as the sequence of buffered bytes from   *)
(* _tail to _head.                                                          *)
(***************************************************************************)
\* RingBuffer.append: when full, the oldest bytes are overwritten
rb_append(buf, data) ==
    LET all == buf \o data
    IN  IF Len(all) > RX_CAPACITY
        THEN SubSeq(all, Len(all) - RX_CAPACITY + 1, Len(all))
        ELSE all

\* RingBuffer.peek
rb_peek(buf, length) ==
    SubSeq(buf, 1, IF length > Len(buf) THEN Len(buf) ELSE length)

\* RingBuffer.skip
rb_skip(buf, length) ==
    SubSeq(buf, (IF length > Len(buf) THEN Len(buf) ELSE length) + 1, Len(buf))

rb_matches(buf, i, pattern) ==
    \A j \in 0 .. Len(pattern) - 1 : At(buf, i + j) = At(pattern, j)

\* RingBuffer.find: offset of the first occurrence of pattern, -1 if none
rb_find(buf, pattern) ==
    IF pattern = <<>> \/ Len(pattern) > Len(buf) THEN -1
    ELSE LET hits == {i \in 0 .. Len(buf) - Len(pattern) : rb_matches(buf, i, pattern)}
         IN  IF hits = {} THEN -1
             ELSE CHOOSE i \in hits : \A k \in hits : i <= k

\* bytes.endswith
endswith(s, suffix) ==
    /\ Len(s) >= Len(suffix)
    /\ SubSeq(s, Len(s) - Len(suffix) + 1, Len(s)) = suffix

(***************************************************************************)
(* KocomController._split_buf: returns the buffer left and the packets      *)
(***************************************************************************)
\* variant: bytes without a prefix stay buffered
no_prefix_keep(buf) == buf

\* step 1 when no prefix is buffered: buf.clear()
no_prefix(buf) == <<>>

\* variant: a framing error discards the whole buffer
framing_error_clear(buf) == <<>>

\* step 4 when the candidate's suffix does not match: buf.skip(1)
framing_error(buf) == rb_skip(buf, 1)

RECURSIVE split_buf(_, _)
split_buf(buf, packets) ==
    IF Len(buf) = 0 THEN [buf |-> buf, packets |-> packets]
    ELSE LET start == rb_find(buf, PACKET_PREFIX) IN
         IF start < 0 THEN [buf |-> no_prefix(buf), packets |-> packets]
         ELSE LET b == IF start > 0 THEN rb_skip(buf, start) ELSE buf IN
              IF Len(b) < PACKET_LEN THEN [buf |-> b, packets |-> packets]
              ELSE LET candidate == rb_peek(b, PACKET_LEN) IN
                   IF ~endswith(candidate, PACKET_SUFFIX)
                   THEN split_buf(framing_error(b), packets)
                   ELSE split_buf(rb_skip(b, PACKET_LEN), Append(packets, candidate))

(***************************************************************************)
(* PacketFrame accessors and KocomController._dispatch_packet               *)
(***************************************************************************)
WALLPAD == 1                      \* 0x01, the wallpad controller address
DEVICE_TYPE_CODES == {14, 59, 54, 57, 72, 44, 68, 96, 152}   \* DEVICE_TYPE_MAP keys

frame_dest(raw) == Slice(raw, 5, 7)
frame_src(raw) == Slice(raw, 7, 9)
frame_command(raw) == At(raw, 9)
frame_payload(raw) == Slice(raw, 10, 18)
frame_checksum(raw) == At(raw, 18)

\* PacketFrame.peer
frame_peer(raw) ==
    IF At(frame_dest(raw), 0) = WALLPAD THEN frame_src(raw)
    ELSE IF At(frame_src(raw), 0) = WALLPAD THEN frame_dest(raw)
    ELSE <<0, 0>>

\* variant: no checksum gate
checksum_ok_always(packet) == TRUE

\* the checksum gate of _dispatch_packet

checksum_ok(packet) == checksum(Slice(packet, 2, 18)) = frame_checksum(packet)

\* _dispatch_packet: TRUE when the packet reaches a device handler
dispatch_packet(packet) ==
    /\ checksum_ok(packet)
    /\ At(frame_peer(packet), 0) \in DEVICE_TYPE_CODES

(***************************************************************************)
(* Input frames                                                             *)
(***************************************************************************)
\* type(2) pad(1) dest(2) src(2) command(1): a status report of light room 1
HEADER == <<48, 220, 0, 1, 0, 14, 1, 0>>

mk_frame(payload) ==
    LET body == HEADER \o payload
    IN  PACKET_PREFIX \o body \o <<checksum(body)>> \o PACKET_SUFFIX

\* payloads: plain, one holding the prefix AA 55 (frame offsets 12, 13), one
\* holding the suffix bytes 0D 0D (frame offsets 10, 11)
Payloads == { <<255, 0, 0, 0, 0, 0, 0, 0>>,
              <<0, 0, 170, 85, 0, 0, 0, 0>>,
              <<13, 13, 0, 0, 0, 0, 0, 255>> }

ValidFrames == {mk_frame(p) : p \in Payloads}

\* a frame whose suffix is not 0D 0D
BrokenSuffixes == { <<13, 0>>, <<0, 13>>, <<170, 85>> }
SuffixBroken == {SubSeq(f, 1, PACKET_LEN - 2) \o s : f \in ValidFrames, s \in BrokenSuffixes}

\* a valid frame with exactly one payload byte changed to another value
MutValues == {0, 13, 254}
mutate(f, i, v) == [f EXCEPT ![10 + i + 1] = v]
ChecksumBroken ==
    {mutate(f, i, v) : f \in ValidFrames, i \in 0 .. 7, v \in MutValues}
        \ ValidFrames

RECURSIVE SeqsUpTo(_, _)
SeqsUpTo(S, n) ==
    IF n = 0 THEN {<<>>}
    ELSE LET shorter == SeqsUpTo(S, n - 1)
         IN  shorter \cup {Append(q, x) : q \in {r \in shorter : Len(r) = n - 1}, x \in S}

RECURSIVE Flatten(_)
Flatten(ss) == IF ss = <<>> THEN <<>> ELSE Head(ss) \o Flatten(Tail(ss))

\* SpecFrame: 1..MaxFrames valid frames
ValidStreams == {Flatten(q) : q \in SeqsUpTo(ValidFrames, MaxFrames) \ {<<>>}}

\* SpecSplit: a valid frame, any frame, then 1..MaxTail valid frames
SplitStreams ==
    {a \o m \o Flatten(t) :
        a \in ValidFrames,
        m \in ValidFrames \cup SuffixBroken \cup ChecksumBroken,
        t \in SeqsUpTo(ValidFrames, MaxTail) \ {<<>>}}

\* SpecNoise: up to MaxPieces pieces, each a valid frame, the first bytes
\* of one, a frame with a broken suffix, or line noise with or without
\* prefix bytes
MaxPieces == 2
NoisePieces ==
    { mk_frame(<<255, 0, 0, 0, 0, 0, 0, 0>>),
      SubSeq(mk_frame(<<255, 0, 0, 0, 0, 0, 0, 0>>), 1, 10),
      SubSeq(mk_frame(<<0, 0, 170, 85, 0, 0, 0, 0>>), 1, PACKET_LEN - 2) \o <<13, 0>>,
      <<0, 13>>, <<170>>, <<85>>, <<170, 85>> }
NoiseStreams == {Flatten(q) : q \in SeqsUpTo(NoisePieces, MaxPieces) \ {<<>>}}

(***************************************************************************)
(* KocomController.feed                                                     *)
(***************************************************************************)
\* feed(chunk) with chunk = the next n bytes of the stream
Feed(n) ==
    /\ n >= 1
    /\ pos + n <= Len(stream)
    /\ LET chunk == SubSeq(stream, pos + 1, pos + n)
           r == split_buf(rb_append(rx_buf, chunk), <<>>)
       IN  /\ rx_buf' = r.buf
           /\ out' = out \o r.packets
           /\ handled' = handled \o SelectSeq(r.packets, dispatch_packet)
    /\ pos' = pos + n
    /\ UNCHANGED <<extVars, stream, callVars, gwVars, senderVars>>

FeedChunk == \E n \in 1 .. Len(stream) - pos : Feed(n)

FeedWhole == pos = 0 /\ Feed(Len(stream))

(***************************************************************************)
(* gateway.py and const.py: constants                                       *)
(***************************************************************************)
QUEUE_MAXSIZE == 50       \* asyncio.Queue(maxsize=50)
SEND_RETRY_MAX == 3
FAILURE_LIMIT == 5        \* _consecutive_failures >= 5

(***************************************************************************)
(* Bounds of the gateway specifications                                     *)
(***************************************************************************)
MaxCalls == 2        \* Spec: calls of async_send_action
MaxCallsQ == 52      \* SpecQueue: calls of async_send_action
MaxCallsE == 2       \* SpecEncode: calls of async_send_action
MaxCallsL == 2       \* SpecLive: calls of async_send_action
MaxCallsC == 5       \* SpecConn: calls of async_send_action
MaxCallsG == 1       \* SpecTurnOn: calls of async_send_action
MaxCallsF == 6       \* SpecCount: calls of async_send_action
MaxCallsR == 2       \* SpecRace: calls of async_send_action

(***************************************************************************)
(* Identities, commands and decoded states                                  *)
(***************************************************************************)
LIGHT_X == [dt |-> "LIGHT", room |-> 1, idx |-> 0]
LIGHT_Y == [dt |-> "LIGHT", room |-> 1, idx |-> 1]
MOTION_M == [dt |-> "MOTION", room |-> 1, idx |-> 0]

\* the (key, action) pairs callers submit
VENT_V == [dt |-> "VENTILATION", room |-> 0, idx |-> 0]
THERMO_T == [dt |-> "THERMOSTAT", room |-> 0, idx |-> 0]
AIRQ_A == [dt |-> "AIRQUALITY", room |-> 0, idx |-> 0]
GAS_G == [dt |-> "GASVALVE", room |-> 0, idx |-> 0]
ELEV_E == [dt |-> "ELEVATOR", room |-> 0, idx |-> 0]

\* the (key, action, kwargs) triples callers submit; arg is the value of the
\* keyword argument the action reads ("none", or NO_NUMBER where the value
\* is a number: no keyword argument passed)
NO_NUMBER == -1
CmdKinds == { [key |-> LIGHT_X, action |-> "turn_off", arg |-> "none"],
              [key |-> LIGHT_X, action |-> "turn_on", arg |-> "none"],
              [key |-> MOTION_M, action |-> "turn_on", arg |-> "none"] }
CmdKindsQ == { [key |-> LIGHT_X, action |-> "turn_off", arg |-> "none"] }
\* SpecEncode: commands generate_command raises for, and one it encodes
CmdKindsE == { [key |-> MOTION_M, action |-> "turn_on", arg |-> "none"],
               [key |-> AIRQ_A, action |-> "query", arg |-> "none"],
               [key |-> VENT_V, action |-> "set_preset", arg |-> "none"],
               [key |-> VENT_V, action |-> "set_preset", arg |-> "turbo"],
               [key |-> THERMO_T, action |-> "set_temperature", arg |-> NO_NUMBER],
               [key |-> LIGHT_X, action |-> "turn_on", arg |-> "none"] }

\* SpecCount: a command that is encoded and one generate_command raises for
CmdKindsF == { [key |-> LIGHT_X, action |-> "turn_off", arg |-> "none"],
               [key |-> MOTION_M, action |-> "turn_on", arg |-> "none"] }

\* SpecTurnOn: turn_on on the device types whose state is a boolean
CmdKindsG == { [key |-> LIGHT_X, action |-> "turn_on", arg |-> "none"],
               [key |-> GAS_G, action |-> "turn_on", arg |-> "none"],
               [key |-> ELEV_E, action |-> "turn_on", arg |-> "none"] }

\* the DeviceState values the reader decodes: (key, state)
RegKeys == {LIGHT_X, LIGHT_Y}
Devs == [key : RegKeys, state : BOOLEAN]
\* SpecTurnOn: with the gas valve (_handle_gasvalve) and the elevator
RegKeysG == {LIGHT_X, GAS_G, ELEV_E}
DevsG == [key : RegKeysG, state : BOOLEAN]

\* device types generate_command builds a packet for; the others raise
GENERATORS == {"LIGHT", "OUTLET", "VENTILATION", "THERMOSTAT",
               "AIRCONDITIONER", "GASVALVE", "ELEVATOR"}
SWITCH_LIKE == {"LIGHT", "LIGHTCUTOFF", "OUTLET", "ELEVATOR"}

\* VENTILATION_PRESET_MAP values (the keys of REV_VENT_PRESET_MAP)
VENT_PRESETS == {"unknown", "ventilation", "auto", "bypass", "sleep",
                 "air purification"}

\* the actions of a device type that read kwargs[...] in its generator or
\* in its expectation
reads_kwarg(dt, action) ==
    \/ dt = "VENTILATION" /\ action \in {"set_preset", "set_percentage"}
    \/ dt = "THERMOSTAT" /\ action \in {"set_hvac", "set_preset", "set_temperature"}
    \/ dt = "AIRCONDITIONER" /\ action \in {"set_hvac", "set_fan", "set_preset",
                                             "set_temperature"}

\* variant: every command is encoded
generate_ok_always(c) == TRUE

\* the keyword argument is not in kwargs: kwargs[...] raises KeyError
no_kwarg(action, arg) ==
    IF action \in {"set_percentage", "set_temperature"} THEN arg = NO_NUMBER
    ELSE arg = "none"

\* generate_command returns (no exception) for this command
generate_ok(c) ==
    /\ c.key.dt \in GENERATORS
    /\ reads_kwarg(c.key.dt, c.action) => ~no_kwarg(c.action, c.arg)
    /\ (c.key.dt = "VENTILATION" /\ c.action = "set_preset") => c.arg \in VENT_PRESETS

\* nothing has been applied yet
NO_FN == [op |-> "none"]

\* EntityRegistry.__init__
NO_ENTRIES == [states |-> <<>>, shadow |-> <<>>, by_platform |-> <<>>,
               last |-> [op |-> "none", ret |-> <<>>]]

\* _match_key_and(key, cond)
match_key_and(key, dev, cond) == IF dev.key # key THEN FALSE ELSE cond

\* variant: _off tests for a true state
expect_for_switch_like_swapped(key, action, dev) ==
    IF action = "turn_on" THEN match_key_and(key, dev, dev.state = FALSE)
    ELSE IF action = "turn_off" THEN match_key_and(key, dev, dev.state = TRUE)
    ELSE match_key_and(key, dev, FALSE)

\* _expect_for_switch_like: the predicate applied to dev
expect_for_switch_like(key, action, dev) ==
    IF action = "turn_on" THEN match_key_and(key, dev, dev.state = TRUE)
    ELSE IF action = "turn_off" THEN match_key_and(key, dev, dev.state = FALSE)
    ELSE match_key_and(key, dev, FALSE)

\* _expect_for_gasvalve: for turn_on the "predicate" returned is the
\* constant True, a bool; calling it in _notify_pendings raises TypeError,
\* which the "except Exception: continue" there swallows, so the waiter is
\* not hit
expect_for_gasvalve(key, action, dev) ==
    IF action = "turn_on" THEN FALSE
    ELSE IF action = "turn_off" THEN match_key_and(key, dev, dev.state = FALSE)
    ELSE match_key_and(key, dev, FALSE)

\* "isinstance(d.state, dict) and d.state.get(k) is True" (is False), for
\* a state that is a dict: a missing key gives None
get_is(state, k, b) == k \in DOMAIN state /\ state[k] = b

\* "isinstance(d.state, dict) and d.state.get(k) == v", for a state that is
\* a dict and a v that is not None
get_eq(state, k, v) == k \in DOMAIN state /\ state[k] = v

\* _expect_for_ventilation: the predicate applied to dev
expect_for_ventilation(key, action, arg, dev) ==
    IF action = "turn_on" THEN match_key_and(key, dev, get_is(dev.state, "state", TRUE))
    ELSE IF action = "turn_off" THEN match_key_and(key, dev, get_is(dev.state, "state", FALSE))
    ELSE IF action = "set_preset"
    THEN match_key_and(key, dev, get_eq(dev.state, "preset_mode", arg))
    ELSE IF action = "set_percentage"
    THEN match_key_and(key, dev, get_eq(dev.state, "speed", arg))
    ELSE match_key_and(key, dev, FALSE)

\* _expect_for_thermostat: the predicate applied to dev
expect_for_thermostat(key, action, arg, dev) ==
    IF action = "set_hvac" THEN match_key_and(key, dev, get_eq(dev.state, "hvac_mode", arg))
    ELSE IF action = "set_preset"
    THEN match_key_and(key, dev, get_eq(dev.state, "preset_mode", arg))
    ELSE IF action = "set_temperature"
    THEN match_key_and(key, dev, get_eq(dev.state, "target_temp", arg))
    ELSE IF action = "turn_on" THEN match_key_and(key, dev, get_is(dev.state, "state", TRUE))
    ELSE IF action = "turn_off" THEN match_key_and(key, dev, get_is(dev.state, "state", FALSE))
    ELSE match_key_and(key, dev, FALSE)

\* _expect_for_airconditioner: the predicate applied to dev
expect_for_airconditioner(key, action, arg, dev) ==
    IF action = "set_hvac" THEN match_key_and(key, dev, get_eq(dev.state, "hvac_mode", arg))
    ELSE IF action = "set_fan"
    THEN match_key_and(key, dev, get_eq(dev.state, "fan_mode", arg))
    ELSE IF action = "set_preset"
    THEN match_key_and(key, dev, get_eq(dev.state, "preset_mode", arg))
    ELSE IF action = "set_temperature"
    THEN match_key_and(key, dev, get_eq(dev.state, "target_temp", arg))
    ELSE IF action = "turn_on" THEN match_key_and(key, dev, get_is(dev.state, "state", TRUE))
    ELSE IF action = "turn_off" THEN match_key_and(key, dev, get_is(dev.state, "state", FALSE))
    ELSE match_key_and(key, dev, FALSE)

\* variant: an action no table lists is confirmed by any state of the key
default_expectation_any(key, dev) == dev.key = key

\* the last line of build_expectation
default_expectation(key, dev) == match_key_and(key, dev, FALSE)

\* build_expectation: the predicate applied to dev (arg is the value of the
\* keyword argument the action reads)
build_expectation(key, action, arg, dev) ==
    IF action = "query" THEN dev.key = key
    ELSE IF key.dt \in SWITCH_LIKE THEN expect_for_switch_like(key, action, dev)
    ELSE IF key.dt = "VENTILATION" THEN expect_for_ventilation(key, action, arg, dev)
    ELSE IF key.dt = "GASVALVE" THEN expect_for_gasvalve(key, action, dev)
    ELSE IF key.dt = "THERMOSTAT" THEN expect_for_thermostat(key, action, arg, dev)
    ELSE IF key.dt = "AIRCONDITIONER" THEN expect_for_airconditioner(key, action, arg, dev)
    ELSE default_expectation(key, dev)

(***************************************************************************)
(* EntityRegistry.upsert and KocomGateway.on_device_state                   *)
(***************************************************************************)
StateStr(b) == IF b THEN "True" ELSE "False"

\* variant: an entry whose state becomes false is deleted
upsert_evict(reg, dev, allow_insert) ==
    IF reg[dev.key] = "None" /\ ~allow_insert
    THEN [reg |-> reg, is_new |-> FALSE, changed |-> FALSE]
    ELSE [reg |-> [reg EXCEPT ![dev.key] = IF dev.state THEN "True" ELSE "None"],
          is_new |-> reg[dev.key] = "None", changed |-> TRUE]

\* upsert: the new _states, is_new and changed
upsert(reg, dev, allow_insert) ==
    LET is_new == reg[dev.key] = "None" IN
    IF is_new /\ ~allow_insert THEN [reg |-> reg, is_new |-> FALSE, changed |-> FALSE]
    ELSE IF is_new
    THEN [reg |-> [reg EXCEPT ![dev.key] = StateStr(dev.state)],
          is_new |-> TRUE, changed |-> TRUE]
    ELSE LET changed == reg[dev.key] # StateStr(dev.state) IN
         [reg |-> IF changed THEN [reg EXCEPT ![dev.key] = StateStr(dev.state)] ELSE reg,
          is_new |-> FALSE, changed |-> changed]

\* variant: every state may be inserted
allow_insert_always(dev) == TRUE

\* on_device_state: allow_insert of a light or outlet is dev._is_register,
\* which _handle_switch sets to the state
allow_insert(dev) ==
    IF dev.key.dt \in {"LIGHT", "OUTLET"} THEN dev.state ELSE TRUE

\* variant: every waiter is hit by every decoded state
waiter_hit_any(p, dev) == TRUE

\* _notify_pendings: the test that puts waiter p into hit
waiter_hit(p, dev) == p.key = dev.key /\ build_expectation(p.key, p.action, p.arg, dev)

\* _notify_pendings: the waiters left in _pendings
notify_pendings(ps, dev) == SelectSeq(ps, LAMBDA p : ~waiter_hit(p, dev))

IsHit(ps, dev, owner, attempt) ==
    \E i \in 1 .. Len(ps) :
        /\ ps[i].owner = owner /\ ps[i].attempt = attempt
        /\ waiter_hit(ps[i], dev)

\* variant: the finally clause does not remove the waiter
remove_waiter_keep(ps, owner, attempt) == ps

\* list.remove(waiter), guarded by "if waiter in self._pendings"
remove_waiter(ps, owner, attempt) ==
    SelectSeq(ps, LAMBDA p : ~(p.owner = owner /\ p.attempt = attempt))

(***************************************************************************)
(* Futures of the command items                                             *)
(***************************************************************************)
\* variant: set_result without the done() test
set_unguarded(f, n, c, v) ==
    [fut |-> [f EXCEPT ![c] = StateStr(v)], nset |-> [n EXCEPT ![c] = @ + 1]]

\* variant: the future is never given a result
set_never(f, n, c, v) == [fut |-> f, nset |-> n]

\* "if not item.future.done(): item.future.set_result(v)"
set_if_not_done(f, n, c, v) ==
    IF f[c] # "pending" THEN [fut |-> f, nset |-> n]
    ELSE [fut |-> [f EXCEPT ![c] = StateStr(v)], nset |-> [n EXCEPT ![c] = @ + 1]]

\* asyncio: cancelling the task that awaits item.future cancels the future
cancel_awaited(f, n, c) ==
    IF f[c] # "pending" THEN [fut |-> f, nset |-> n]
    ELSE [fut |-> [f EXCEPT ![c] = "cancelled"], nset |-> [n EXCEPT ![c] = @ + 1]]

(***************************************************************************)
(* KocomGateway.async_send_action                                           *)
(***************************************************************************)
\* variant: the queue is taken to be full one item late
queue_full_late(q) == Len(q) > QUEUE_MAXSIZE

\* asyncio.Queue.full()
queue_full(q) == Len(q) >= QUEUE_MAXSIZE

\* the call up to "await item.future" (put() on a queue that is not full
\* does not suspend)
SendActionB(kind, maxCalls) ==
    /\ Len(cmd) < maxCalls
    /\ cmd' = Append(cmd, kind)
    /\ nset' = Append(nset, 0)
    /\ matched' = Append(matched, FALSE)
    /\ IF queue_full(tx_queue)
       THEN /\ fut' = Append(fut, "none")
            /\ ret' = Append(ret, "False")
            /\ UNCHANGED tx_queue
       ELSE /\ fut' = Append(fut, "pending")
            /\ ret' = Append(ret, "blocked")
            /\ tx_queue' = Append(tx_queue, Len(cmd) + 1)
    /\ UNCHANGED <<extVars, frameVars, senderVars, pendings, registry, connected,
                   failures, stop_pc, calls_at_stop>>

SendAction == \E kind \in CmdKinds : SendActionB(kind, MaxCalls)
SendActionQ == \E kind \in CmdKindsQ : SendActionB(kind, MaxCallsQ)
SendActionE == \E kind \in CmdKindsE : SendActionB(kind, MaxCallsE)
SendActionL == \E kind \in CmdKindsQ : SendActionB(kind, MaxCallsL)
SendActionC == \E kind \in CmdKindsQ : SendActionB(kind, MaxCallsC)
SendActionG == \E kind \in CmdKindsG : SendActionB(kind, MaxCallsG)
SendActionF == \E kind \in CmdKindsF : SendActionB(kind, MaxCallsF)
SendActionR == \E kind \in CmdKindsQ : SendActionB(kind, MaxCallsR)

\* "res = await item.future; return bool(res)"
CallerReturn ==
    \E c \in 1 .. Len(cmd) :
        /\ ret[c] = "blocked"
        /\ fut[c] \in {"True", "False"}
        /\ ret' = [ret EXCEPT ![c] = fut[c]]
        /\ UNCHANGED <<extVars, frameVars, cmd, fut, nset, matched, gwVars, senderVars>>

\* the caller's task is cancelled while it awaits item.future: the
\* "except asyncio.CancelledError" branch
CallerCancel ==
    \E c \in 1 .. Len(cmd) :
        /\ ret[c] = "blocked"
        /\ LET a == cancel_awaited(fut, nset, c)
               r == set_if_not_done(a.fut, a.nset, c, FALSE)
           IN  fut' = r.fut /\ nset' = r.nset
        /\ ret' = [ret EXCEPT ![c] = "raised"]
        /\ UNCHANGED <<extVars, frameVars, cmd, matched, gwVars, senderVars>>

(***************************************************************************)
(* KocomGateway._sender_loop                                                *)
(***************************************************************************)
\* variant: the newest item is taken first
queue_get_last(q) == [item |-> q[Len(q)], rest |-> SubSeq(q, 1, Len(q) - 1)]

\* asyncio.Queue.get()
queue_get(q) == [item |-> Head(q), rest |-> Tail(q)]

\* variant: one attempt too many
retry_left_late(attempt) == attempt <= SEND_RETRY_MAX

\* "for attempt in range(1, SEND_RETRY_MAX + 1)" has another round, which
\* is also "if attempt < SEND_RETRY_MAX" before the retry gap
retry_left(attempt) == attempt < SEND_RETRY_MAX

\* variant: the counter is not set back at the limit
count_failure_keep(n) == n + 1

\* "self._consecutive_failures += 1" and the reset at the limit
count_failure(n) == IF n + 1 >= FAILURE_LIMIT THEN 0 ELSE n + 1

\* lines 328-344: the failure counter, the item's future, back to get()
\* and, at the limit, asyncio.create_task(self.conn.reconnect())
Finish(success) ==
    /\ failures' = IF success THEN 0 ELSE count_failure(failures)
    /\ LET escalate == ~success /\ failures + 1 >= FAILURE_LIMIT IN
       /\ rc_new' = IF escalate THEN rc_new \cup {"sender"} ELSE rc_new
       /\ esc_owed' = IF escalate /\ connected THEN TRUE ELSE esc_owed
    /\ LET r == set_if_not_done(fut, nset, s_item, success)
       IN  fut' = r.fut /\ nset' = r.nset
    /\ s_pc' = "get"
    /\ s_item' = 0
    /\ s_attempt' = 0
    /\ s_wfut' = "none"

\* get() returns an item; generate_command; on an exception the item is
\* resolved False and the loop goes back to get()
SenderGet ==
    /\ s_pc = "get"
    /\ tx_queue # <<>>
    /\ LET g == queue_get(tx_queue) IN
       /\ tx_queue' = g.rest
       /\ taken' = Append(taken, g.item)
       /\ s_sends' = 0
       /\ s_gaps' = 0
       /\ IF ~generate_ok(cmd[g.item])
          THEN /\ LET r == set_if_not_done(fut, nset, g.item, FALSE)
                  IN  fut' = r.fut /\ nset' = r.nset
               /\ UNCHANGED <<s_pc, s_item, s_attempt, s_wfut>>
          ELSE /\ s_item' = g.item
               /\ s_attempt' = 1
               /\ s_pc' = "idle_wait"
               /\ s_wfut' = "none"
               /\ UNCHANGED <<fut, nset>>
    /\ UNCHANGED <<extVars, frameVars, cmd, ret, matched, pendings, registry, connected,
                   failures, stop_pc, calls_at_stop>>

\* the idle wait ends (the bus is idle, or 1.0 s have passed); when the
\* transport is not connected the loop breaks, else conn.send writes the
\* packet and awaits drain()
SenderTransmit ==
    /\ s_pc = "idle_wait"
    /\ IF ~connected
       THEN /\ Finish(FALSE)
            /\ UNCHANGED <<s_sends>>
       ELSE /\ s_pc' = "drain"
            /\ s_sends' = s_sends + 1
            /\ UNCHANGED <<fut, nset, failures, s_item, s_attempt, s_wfut, rc_new,
                           esc_owed>>
    /\ UNCHANGED <<decVars, rcVars, frameVars, cmd, ret, matched, tx_queue, pendings, registry,
                   connected, stop_pc, calls_at_stop, s_gaps, taken>>

\* conn.send returns (the bytes written, or 0 after a failed write or
\* drain, which creates a reconnect() task: the result is not looked at);
\* _wait_for_confirmation appends its waiter
SenderDrained ==
    /\ s_pc = "drain"
    /\ \E failed \in (IF link = "dead" THEN BOOLEAN ELSE {FALSE}) :
           rc_new' = IF failed THEN rc_new \cup {"send"} ELSE rc_new
    /\ pendings' = Append(pendings,
           [owner |-> s_item, attempt |-> s_attempt,
            key |-> cmd[s_item].key, action |-> cmd[s_item].action,
            arg |-> cmd[s_item].arg])
    /\ s_wfut' = "pending"
    /\ s_pc' = "confirm"
    /\ UNCHANGED <<decVars, rcVars, esc_owed, frameVars, callVars, tx_queue, registry, connected, failures,
                   stop_pc, calls_at_stop, s_item, s_attempt, s_sends, s_gaps, taken>>

\* wait_for returns the waiter's result: success, break
SenderConfirmed ==
    /\ s_pc = "confirm"
    /\ s_wfut = "result"
    /\ pendings' = remove_waiter(pendings, s_item, s_attempt)
    /\ Finish(TRUE)
    /\ UNCHANGED <<decVars, rcVars, frameVars, cmd, ret, matched, tx_queue, registry, connected,
                   stop_pc, calls_at_stop, s_sends, s_gaps, taken>>

\* wait_for times out: the waiter is removed; either the retry gap starts
\* or the attempts are used up
SenderTimeout ==
    /\ s_pc = "confirm"
    /\ s_wfut = "pending"
    /\ pendings' = remove_waiter(pendings, s_item, s_attempt)
    /\ IF retry_left(s_attempt)
       THEN /\ s_pc' = "gap"
            /\ s_wfut' = "none"
            /\ UNCHANGED <<fut, nset, failures, s_item, s_attempt, rc_new, esc_owed>>
       ELSE Finish(FALSE)
    /\ UNCHANGED <<decVars, rcVars, frameVars, cmd, ret, matched, tx_queue, registry, connected,
                   stop_pc, calls_at_stop, s_sends, s_gaps, taken>>

\* sleep(SEND_RETRY_GAP) returns: the next attempt
SenderGapDone ==
    /\ s_pc = "gap"
    /\ s_gaps' = s_gaps + 1
    /\ s_attempt' = s_attempt + 1
    /\ s_pc' = "idle_wait"
    /\ UNCHANGED <<extVars, frameVars, callVars, gwVars, s_item, s_wfut, s_sends, taken>>

(***************************************************************************)
(* The reader: _read_loop, feed, _dispatch_packet, on_device_state          *)
(***************************************************************************)
\* the command of call c is in its confirmation window
InWindow(c) == s_pc = "confirm" /\ s_item = c

\* on_device_state(dev), called by the reader for one decoded state
on_device_state(dev) ==
        /\ stop_pc # "stopped"
        /\ connected
        /\ link = "up"
        /\ registry' = upsert(registry, dev, allow_insert(dev)).reg
        /\ pendings' = notify_pendings(pendings, dev)
        /\ s_wfut' = IF s_wfut = "pending" /\ IsHit(pendings, dev, s_item, s_attempt)
                     THEN "result" ELSE s_wfut
        /\ matched' = [c \in 1 .. Len(cmd) |->
                          \/ matched[c]
                          \/ /\ InWindow(c)
                             /\ dev.key = cmd[c].key
                             /\ build_expectation(cmd[c].key, cmd[c].action, cmd[c].arg, dev)]
        /\ UNCHANGED <<frameVars, cmd, fut, ret, nset, tx_queue, connected, failures,
                       stop_pc, calls_at_stop, s_pc, s_item, s_attempt, s_sends,
                       s_gaps, taken>>

\* one decoded state reaches on_device_state
OnDeviceStateOf(dev) == on_device_state(dev) /\ UNCHANGED extVars

\* the phase call c is in when a state is processed that cannot reach a
\* waiter of c: "early", "drain", or "none"
phase_of(c) ==
    IF fut[c] # "pending" THEN "none"
    ELSE IF \E i \in 1 .. Len(tx_queue) : tx_queue[i] = c THEN "early"
    ELSE IF s_item = c /\ s_pc \in {"idle_wait", "gap"} THEN "early"
    ELSE IF s_item = c /\ s_pc = "drain" THEN "drain"
    ELSE "none"

\* a decoded state of light X reaches on_device_state; rep records the
\* pending calls whose predicate it satisfies and that have no waiter
OnDeviceStateR ==
    \E dev \in {d \in Devs : d.key = LIGHT_X} :
        /\ on_device_state(dev)
        /\ rep' = rep \cup
               {<<c, phase_of(c)>> : c \in {k \in 1 .. Len(cmd) :
                    /\ phase_of(k) # "none"
                    /\ dev.key = cmd[k].key
                    /\ build_expectation(cmd[k].key, cmd[k].action, cmd[k].arg, dev)}}
        /\ UNCHANGED <<sw_op, th_storage, th_last, th_half, th_packet, fn_op, ereg,
                       elVars, idleVars, disp, rcVars, rc_new, esc_owed>>

OnDeviceState == \E dev \in Devs : OnDeviceStateOf(dev)

OnDeviceStateG == \E dev \in DevsG : OnDeviceStateOf(dev)

\* the decoded states of light X alone
OnDeviceStateX == \E dev \in {d \in Devs : d.key = LIGHT_X} : OnDeviceStateOf(dev)

\* _read_loop: the transport is not connected and conn.reconnect() opens it
Reconnect ==
    /\ stop_pc # "stopped"
    /\ ~connected
    /\ connected' = TRUE
    /\ UNCHANGED <<extVars, frameVars, callVars, senderVars, tx_queue, pendings, registry,
                   failures, stop_pc, calls_at_stop>>

(***************************************************************************)
(* KocomGateway.async_stop                                                  *)
(***************************************************************************)
\* variant: the cancellation does not reach the waiter's future
cancel_waiter_lost(w) == w

\* wait_for is cancelled while it awaits waiter.future: the future is
\* cancelled
cancel_waiter(w) == IF w = "pending" THEN "cancelled" ELSE w

\* _task_sender.cancel(): CancelledError is raised at the await the sender
\* is suspended in; _wait_for_confirmation's finally removes its waiter
StopSender ==
    /\ stop_pc = "running"
    /\ stop_pc' = "sender_cancelled"
    /\ s_pc' = "cancelled"
    /\ pendings' = IF s_pc = "confirm"
                   THEN remove_waiter(pendings, s_item, s_attempt) ELSE pendings
    /\ s_wfut' = cancel_waiter(s_wfut)
    /\ UNCHANGED <<extVars, frameVars, callVars, tx_queue, registry, connected, failures,
                   calls_at_stop, s_item, s_attempt, s_sends, s_gaps, taken>>

\* _task_reader.cancel(); the waiters left get CancelledError and the list
\* is cleared; conn.close()
StopRest ==
    /\ stop_pc = "sender_cancelled"
    /\ stop_pc' = "stopped"
    /\ pendings' = <<>>
    /\ connected' = FALSE
    /\ calls_at_stop' = Len(cmd)
    /\ UNCHANGED <<extVars, frameVars, callVars, senderVars, tx_queue, registry, failures>>

(***************************************************************************)
(* Light status decoding (_handle_switch) and light command encoding        *)
(* (_generate_switch)                                                       *)
(***************************************************************************)
NSUB == 8                \* range(8): the sub-devices of a room
MaxSub == 3              \* SpecSwitch: sub-devices whose status byte varies

LightKey(i) == [dt |-> "LIGHT", room |-> 1, idx |-> i]
SwitchKeys == {LightKey(i) : i \in 0 .. NSUB - 1}

\* registry._shadow: nothing writes it
shadow_states(key) == "None"

\* EntityRegistry.get
registry_get(reg, key, include_shadow) ==
    IF reg[key] = "None" /\ include_shadow THEN shadow_states(key) ELSE reg[key]

\* _handle_switch: the eight DeviceState of a status frame
handle_switch(packet) ==
    IF frame_command(packet) # 0 THEN <<>>
    ELSE [n \in 1 .. NSUB |->
            [key |-> [dt |-> "LIGHT", room |-> At(frame_peer(packet), 1), idx |-> n - 1],
             state |-> At(frame_payload(packet), n - 1) = 255]]

\* _dispatch_packet: on_device_state for each state of the list, in order
RECURSIVE on_device_states(_, _)
on_device_states(reg, states) ==
    IF states = <<>> THEN reg
    ELSE on_device_states(upsert(reg, Head(states), allow_insert(Head(states))).reg,
                          Tail(states))

\* variant: the other sub-devices are written as off
generate_switch_clobber(reg, key, action) ==
    [n \in 1 .. NSUB |-> IF n - 1 = key.idx /\ action = "turn_on" THEN 255 ELSE 0]

\* variant: a query sends the states the registry holds
generate_switch_reflect(reg, key, action) ==
    [n \in 1 .. NSUB |->
        IF n - 1 # key.idx \/ action = "query"
        THEN (IF registry_get(reg, [key EXCEPT !.idx = n - 1], TRUE) = "True"
              THEN 255 ELSE 0)
        ELSE (IF action = "turn_on" THEN 255 ELSE 0)]

\* _generate_switch: the 8 data bytes
generate_switch(reg, key, action) ==
    IF action = "query" THEN [n \in 1 .. NSUB |-> 0]
    ELSE [n \in 1 .. NSUB |->
            IF n - 1 # key.idx
            THEN (IF registry_get(reg, [key EXCEPT !.idx = n - 1], TRUE) = "True"
                  THEN 255 ELSE 0)
            ELSE (IF action = "turn_on" THEN 255 ELSE 0)]

\* the status bytes the wallpad reports: on, off, and a value that is neither
StatusBytes == {0, 255, 1}
VaryingSubs == {<<0, 3, 5, 1, 7, 2, 4, 6>>[n] : n \in 1 .. MaxSub}
SwPayloads ==
    {p \in [1 .. NSUB -> StatusBytes] : \A n \in 1 .. NSUB : (n - 1) \notin VaryingSubs => p[n] = 0}

NO_OP == [op |-> "none", payload |-> <<>>, idx |-> 0, action |-> "none", data |-> <<>>]

\* a status frame of light room 1 goes through _dispatch_packet
SwStatus ==
    \E payload \in SwPayloads :
        LET packet == mk_frame(payload) IN
        /\ dispatch_packet(packet)
        /\ registry' = on_device_states(registry, handle_switch(packet))
        /\ sw_op' = [NO_OP EXCEPT !.op = "status", !.payload = payload]
        /\ UNCHANGED <<th_storage, th_last, th_half, th_packet, auxVars, fn_op, ereg, rcVars, rc_new, esc_owed,
                       frameVars, callVars, senderVars, tx_queue, pendings, connected,
                       failures, stop_pc, calls_at_stop>>

\* generate_command for a light key: the data bytes
SwEncode ==
    \E i \in 0 .. NSUB - 1, action \in {"turn_on", "turn_off", "query"} :
        /\ sw_op' = [NO_OP EXCEPT !.op = "encode", !.idx = i, !.action = action,
                                  !.data = generate_switch(registry, LightKey(i), action)]
        /\ UNCHANGED <<th_storage, th_last, th_half, th_packet, auxVars, fn_op, ereg, rcVars, rc_new, esc_owed,
                       frameVars, callVars, gwVars, senderVars>>

(***************************************************************************)
(* Thermostat decoding (_handle_thermostat); temperatures in tenths         *)
(***************************************************************************)
ABSENT == -1             \* the key is not in _device_storage

\* type(2) pad(1) dest(2) src(2) command(1): a status report of thermostat room 0
THERMO_HEADER == <<48, 220, 0, 1, 0, 54, 0, 0>>

mk_thermo_frame(payload) ==
    LET body == THERMO_HEADER \o payload
    IN  PACKET_PREFIX \o body \o <<checksum(body)>> \o PACKET_SUFFIX

\* float(byte), in tenths of a degree
float10(byte) == byte * 10

\* variant: the stored target follows every frame with non-zero
\* temperatures, heating or not
handle_thermostat_follow(st, packet) ==
    LET payload == frame_payload(packet)
        target_temp == float10(At(payload, 2))
        current_temp == float10(At(payload, 4))
    IN  [dev |-> [temp_step |-> IF st.step = ABSENT THEN 10 ELSE st.step,
                  hvac_mode |-> IF At(payload, 0) \div 16 = 1 THEN "heat" ELSE "off",
                  preset_mode |-> IF At(payload, 1) % 16 = 1 THEN "away" ELSE "none",
                  target_temp |-> IF st.target = ABSENT THEN target_temp ELSE st.target,
                  current_temp |-> IF st.current = ABSENT THEN current_temp ELSE st.current],
         storage |-> IF target_temp # 0 /\ current_temp # 0
                     THEN [st EXCEPT !.target = target_temp, !.current = current_temp]
                     ELSE st]

\* _handle_thermostat for a command-0x00 frame: the decoded state and
\* attribute, and _device_storage afterwards
handle_thermostat(st, packet) ==
    LET payload == frame_payload(packet)
        hvac == IF At(payload, 0) \div 16 = 1 THEN "heat" ELSE "off"
        preset == IF At(payload, 1) % 16 = 1 THEN "away" ELSE "none"
        target_temp == float10(At(payload, 2))
        current_temp == float10(At(payload, 4))
        dev == [temp_step |-> IF st.step = ABSENT THEN 10 ELSE st.step,
                hvac_mode |-> hvac,
                preset_mode |-> preset,
                target_temp |-> IF st.target = ABSENT THEN target_temp ELSE st.target,
                current_temp |-> IF st.current = ABSENT THEN current_temp ELSE st.current]
        st1 == IF target_temp % 10 = 5 /\ st.step # 5 THEN [st EXCEPT !.step = 5] ELSE st
        st2 == IF target_temp # 0 /\ current_temp # 0
               THEN [st1 EXCEPT !.target = IF hvac = "heat" /\ st1.target # target_temp
                                           THEN target_temp ELSE @,
                                !.current = current_temp]
               ELSE st1
    IN  [dev |-> dev, storage |-> st2]

NO_STATE == [temp_step |-> 0, hvac_mode |-> "none", preset_mode |-> "none",
             target_temp |-> 0, current_temp |-> 0]

\* the setpoints of the thermostat, in tenths: 20.0, 21.5 and 22.0 degrees
Setpoints == {200, 215, 220}

\* the byte a thermostat may put at payload[2] for a setpoint: whole
\* degrees, half degrees or tenths
target_bytes(t) ==
    IF t % 10 = 0 THEN {t \div 10} ELSE {t \div 10, t \div 5, t}

\* the DeviceState _handle_thermostat appends first: its key and the
\* state dict of decoded record d
thermo_state(d) ==
    [key |-> THERMO_T,
     state |-> [hvac_mode |-> d.hvac_mode, preset_mode |-> d.preset_mode,
                target_temp |-> d.target_temp, current_temp |-> d.current_temp]]

\* a thermostat status frame goes through _dispatch_packet
ThDecode ==
    \E t \in Setpoints, b0 \in {0, 17}, b4 \in {0, 22} :
      \E b2 \in target_bytes(t) :
        LET packet == mk_thermo_frame(<<b0, 0, b2, 0, b4, 0, 0, 0>>)
            r == handle_thermostat(th_storage, packet)
        IN  /\ dispatch_packet(packet)
            /\ frame_command(packet) = 0
            /\ th_storage' = r.storage
            /\ th_last' = r.dev
            /\ th_packet' = packet
            /\ th_half' = IF th_half = 0 THEN (IF t = 215 THEN 1 ELSE 0) ELSE 2
            /\ UNCHANGED <<sw_op, fn_op, ereg, auxVars, rcVars, rc_new, esc_owed, frameVars,
                           callVars, gwVars, senderVars>>

(***************************************************************************)
(* transport.py: AsyncConnection.reconnect, and KocomGateway._read_loop     *)
(***************************************************************************)
BACKOFF_MIN == 1         \* reconnect_backoff[0], seconds
BACKOFF_MAX == 30        \* reconnect_backoff[1], seconds

MaxAttempts == 7         \* reconnect sequences run

Min2(a, b) == IF a < b THEN a ELSE b

\* variant: the lock never reports locked
lock_never_locked(l) == FALSE

\* _reconnect_lock.locked()
lock_locked(l) == l

\* variant: the delay after an attempt is not doubled
next_delay_flat(delay) == Min2(delay, BACKOFF_MAX)

\* "self._last_reconn_delay = min(delay * 2, delay_max)"
next_delay(delay) == Min2(delay * 2, BACKOFF_MAX)

\* "delay = self._last_reconn_delay if self._last_reconn_delay > 0.0 else delay_min"
first_delay(last) == IF last > 0 THEN last ELSE BACKOFF_MIN

\* reconnect() can be followed to its first suspension
RcCallEnabled == lock_locked(rc_lock) \/ connected \/ Len(rc_hist) < MaxAttempts

\* a reconnect sequence passes the lock and the connected test
RcBegins == ~lock_locked(rc_lock) /\ ~connected

\* reconnect() called by origin o, up to its first suspension: return when
\* the lock is held; take the lock and return when connected; else set
\* _connected False, close() and start sleep(delay)
RcCall(o) ==
    IF lock_locked(rc_lock)
    THEN /\ rc_skipped' = TRUE
         /\ UNCHANGED <<rc_lock, rc_active, rc_hist, connected, eof_owed, esc_owed,
                        last_reconn_delay>>
    ELSE IF connected
    THEN UNCHANGED <<rc_skipped, rc_lock, rc_active, rc_hist, connected, eof_owed,
                     esc_owed, last_reconn_delay>>
    ELSE /\ rc_lock' = TRUE
         /\ connected' = FALSE
         /\ rc_active' = Append(rc_active,
                [origin |-> o, pc |-> "sleep",
                 delay |-> first_delay(last_reconn_delay), h |-> Len(rc_hist) + 1])
         /\ rc_hist' = Append(rc_hist,
                [delay |-> first_delay(last_reconn_delay), result |-> "running"])
         /\ eof_owed' = FALSE
         /\ esc_owed' = FALSE
         /\ UNCHANGED <<rc_skipped, last_reconn_delay>>

\* a reconnect() task made by create_task runs
RcRunDetached ==
    \E o \in rc_new :
        /\ RcCallEnabled
        /\ RcCall(o)
        /\ rc_new' = rc_new \ {o}
        /\ UNCHANGED <<decVars, link, r_pc, frameVars, callVars, senderVars, tx_queue,
                       pendings, registry, failures, stop_pc, calls_at_stop>>

\* sleep(delay) returns: _last_reconn_delay is set, open() starts
RcWake ==
    \E i \in 1 .. Len(rc_active) :
        /\ rc_active[i].pc = "sleep"
        /\ last_reconn_delay' = next_delay(rc_active[i].delay)
        /\ rc_active' = [rc_active EXCEPT ![i].pc = "open"]
        /\ UNCHANGED <<decVars, link, r_pc, rc_new, rc_lock, rc_hist, eof_owed, esc_owed,
                       rc_skipped, frameVars, callVars, gwVars, senderVars>>

\* open() returns (ok) or raises; the lock is released; the reader, when
\* the call was its own, goes on in _read_loop
RcOpen(ok) ==
    \E i \in 1 .. Len(rc_active) :
        /\ rc_active[i].pc = "open"
        /\ connected' = ok
        /\ link' = IF ok THEN "up" ELSE link
        /\ last_reconn_delay' = IF ok THEN BACKOFF_MIN ELSE last_reconn_delay
        /\ rc_lock' = FALSE
        /\ rc_hist' = [rc_hist EXCEPT ![rc_active[i].h].result =
                                          IF ok THEN "ok" ELSE "fail"]
        /\ rc_active' = SubSeq(rc_active, 1, i - 1) \o
                        SubSeq(rc_active, i + 1, Len(rc_active))
        /\ r_pc' = IF rc_active[i].origin # "reader" THEN r_pc
                   ELSE IF ok THEN "loop" ELSE "sleep5"
        /\ UNCHANGED <<decVars, rc_new, eof_owed, esc_owed, rc_skipped, frameVars,
                       callVars, senderVars, tx_queue, pendings, registry, failures,
                       stop_pc, calls_at_stop>>

RcOpenOk == RcOpen(TRUE)
RcOpenFail == RcOpen(FALSE)

\* one round of _read_loop: reconnect() when not connected, else recv();
\* recv() on a dead link reads EOF or raises, and creates a reconnect() task
ReaderLoop ==
    /\ r_pc = "loop"
    /\ stop_pc = "running"
    /\ IF ~connected
       THEN /\ RcCallEnabled
            /\ RcCall("reader")
            /\ r_pc' = IF RcBegins THEN "in_reconnect" ELSE "sleep5"
            /\ UNCHANGED rc_new
       ELSE /\ \E outcome \in (IF link = "dead" THEN {"eof", "error"} ELSE {"data"}) :
                 /\ rc_new' = IF outcome = "data" THEN rc_new ELSE rc_new \cup {"recv"}
                 /\ eof_owed' = IF outcome = "eof" THEN TRUE ELSE eof_owed
            /\ UNCHANGED <<r_pc, rc_skipped, rc_lock, rc_active, rc_hist, connected,
                           esc_owed, last_reconn_delay>>
    /\ UNCHANGED <<decVars, link, frameVars, callVars, senderVars, tx_queue, pendings,
                   registry, failures, stop_pc, calls_at_stop>>

\* sleep(5) after a reconnect() that left the transport not connected
ReaderSleepDone ==
    /\ r_pc = "sleep5"
    /\ r_pc' = "loop"
    /\ UNCHANGED <<decVars, link, rc_new, rc_active, rc_lock, last_reconn_delay, rc_hist,
                   eof_owed, esc_owed, rc_skipped, frameVars, callVars, gwVars,
                   senderVars>>

\* the remote end closes the connection
LinkDrop ==
    /\ connected
    /\ link = "up"
    /\ link' = "dead"
    /\ UNCHANGED <<decVars, r_pc, rc_new, rc_active, rc_lock, last_reconn_delay, rc_hist,
                   eof_owed, esc_owed, rc_skipped, frameVars, callVars, gwVars,
                   senderVars>>

\* SpecBackoff: the owner of the connection calls reconnect() and close()
ClientReconnect ==
    /\ rc_new' = rc_new \cup {"client"}
    /\ UNCHANGED <<decVars, rcVars, esc_owed, frameVars, callVars, gwVars, senderVars>>

ClientClose ==
    /\ connected
    /\ connected' = FALSE
    /\ UNCHANGED <<extVars, frameVars, callVars, senderVars, tx_queue, pendings, registry,
                   failures, stop_pc, calls_at_stop>>

\* async_stop after the sender is cancelled: _task_reader.cancel() raises
\* CancelledError at the reader's await, which inside its own reconnect()
\* leaves the "async with" block and releases the lock; the waiters left
\* are cancelled, the list is cleared and conn.close() is called. The
\* reconnect() tasks made by create_task are not cancelled; those that
\* have not run yet run while async_stop awaits the cancelled tasks.
StopReader ==
    /\ stop_pc = "sender_cancelled"
    /\ rc_new = {}
    /\ stop_pc' = "stopped"
    /\ r_pc' = "cancelled"
    /\ LET own == {i \in 1 .. Len(rc_active) : rc_active[i].origin = "reader"} IN
       /\ rc_active' = SelectSeq(rc_active, LAMBDA a : a.origin # "reader")
       /\ rc_lock' = IF own # {} THEN FALSE ELSE rc_lock
       /\ rc_hist' = [h \in 1 .. Len(rc_hist) |->
                         IF \E i \in own : rc_active[i].h = h
                         THEN [rc_hist[h] EXCEPT !.result = "cancelled"]
                         ELSE rc_hist[h]]
    /\ pendings' = <<>>
    /\ connected' = FALSE
    /\ calls_at_stop' = Len(cmd)
    /\ UNCHANGED <<decVars, link, rc_new, last_reconn_delay, eof_owed, esc_owed,
                   rc_skipped, frameVars, callVars, senderVars, tx_queue, registry,
                   failures>>

(***************************************************************************)
(* build_expectation applied to decoded states                              *)
(***************************************************************************)
\* one identity of every device type, and a second light
LIGHT_Z == [dt |-> "LIGHT", room |-> 2, idx |-> 0]
CUTOFF_C == [dt |-> "LIGHTCUTOFF", room |-> 0, idx |-> 0]
DIMMING_D == [dt |-> "DIMMINGLIGHT", room |-> 0, idx |-> 0]
OUTLET_O == [dt |-> "OUTLET", room |-> 1, idx |-> 0]
AIRCON_A == [dt |-> "AIRCONDITIONER", room |-> 0, idx |-> 0]
ExKeys == {LIGHT_X, LIGHT_Z, CUTOFF_C, DIMMING_D, OUTLET_O, ELEV_E, GAS_G,
           MOTION_M, VENT_V, THERMO_T, AIRCON_A}

\* the state values the handlers decode for an identity: a bool (switch,
\* gas valve, elevator, motion handlers) or the dict of the ventilation,
\* thermostat and air-conditioner handlers
ExStates(key) ==
    IF key.dt = "VENTILATION"
    THEN [state : BOOLEAN, preset_mode : {"ventilation", "auto"}, speed : {0, 64}]
    ELSE IF key.dt = "THERMOSTAT"
    THEN [hvac_mode : {"heat", "off"}, preset_mode : {"none", "away"},
          target_temp : {200, 220}, current_temp : {220}]
    ELSE IF key.dt = "AIRCONDITIONER"
    THEN [hvac_mode : {"cool", "off"}, fan_mode : {"low", "high"},
          target_temp : {200, 220}, current_temp : {220}]
    ELSE BOOLEAN

\* the actions a caller may name, each with the values of the keyword
\* argument it reads; "toggle" and "open" are in no table
ExArgs(action) ==
    IF action = "set_preset" THEN {"auto", "away"}
    ELSE IF action = "set_percentage" THEN {0, 64}
    ELSE IF action = "set_hvac" THEN {"heat", "cool"}
    ELSE IF action = "set_fan" THEN {"low", "high"}
    ELSE IF action = "set_temperature" THEN {200, 220}
    ELSE {"none"}
ExActions == {"query", "turn_on", "turn_off", "set_preset", "set_percentage",
              "set_hvac", "set_fan", "set_temperature", "toggle", "open"}

\* the commands and decoded states build_expectation's predicate is
\* applied to
ExInputs ==
    UNION { UNION { { [op |-> "input", key |-> key, action |-> action, arg |-> arg,
                       dev |-> [key |-> dkey, state |-> st], hit |-> FALSE] :
                      arg \in ExArgs(action), st \in ExStates(dkey) } :
                    key \in ExKeys, dkey \in ExKeys } :
            action \in ExActions }

\* build_expectation(key, action, **kwargs), and _notify_pendings applying
\* the predicate to one decoded state
ExpectEval ==
        /\ fn_op.op = "input"
        /\ fn_op' = [fn_op EXCEPT !.op = "expect",
                       !.hit = build_expectation(fn_op.key, fn_op.action, fn_op.arg,
                                                 fn_op.dev)]
        /\ UNCHANGED <<sw_op, th_storage, th_last, th_half, th_packet, auxVars, ereg, rcVars,
                       rc_new, esc_owed, frameVars, callVars, gwVars, senderVars>>

(***************************************************************************)
(* generate_command for ventilation, thermostat and air conditioner, and   *)
(* the handlers that decode their status payloads                           *)
(***************************************************************************)
ZERO_DATA == <<0, 0, 0, 0, 0, 0, 0, 0>>       \* bytearray(8)

\* data[i] = v
SetB(data, i, v) == [data EXCEPT ![i + 1] = v]

\* int(tt) of a temperature held in tenths
int10(t) == t \div 10

\* AIRCONDITIONER_HVAC_MAP, AIRCONDITIONER_FAN_MAP and their reverses
AC_HVAC_MAP == <<"cool", "fan_only", "dry", "auto">>       \* bytes 0..3
AC_FAN_MAP == <<"low", "medium", "high", "auto">>          \* bytes 1..4
REV_AC_HVAC_MAP(hm) ==
    IF \E b \in 0 .. 3 : AC_HVAC_MAP[b + 1] = hm
    THEN CHOOSE b \in 0 .. 3 : AC_HVAC_MAP[b + 1] = hm ELSE 0
REV_AC_FAN_MAP(fm) ==
    IF \E b \in 1 .. 4 : AC_FAN_MAP[b] = fm
    THEN CHOOSE b \in 1 .. 4 : AC_FAN_MAP[b] = fm ELSE 1

\* VENTILATION_PRESET_MAP and its reverse
VENT_PRESET_BYTES == {0, 1, 2, 3, 5, 8}
VENTILATION_PRESET_MAP(b) ==
    IF b = 0 THEN "unknown" ELSE IF b = 1 THEN "ventilation"
    ELSE IF b = 2 THEN "auto" ELSE IF b = 3 THEN "bypass"
    ELSE IF b = 5 THEN "sleep" ELSE IF b = 8 THEN "air purification"
    ELSE "unknown"
REV_VENT_PRESET_MAP(pm) == CHOOSE b \in VENT_PRESET_BYTES : VENTILATION_PRESET_MAP(b) = pm

\* _generate_ventilation; st is registry.get(key): [known, state]
generate_ventilation(st, action, arg) ==
    IF action = "query"
    THEN LET is_on == IF st.known THEN st.state.state ELSE FALSE
             speed == IF st.known THEN st.state.speed ELSE 0
         IN  SetB(SetB(ZERO_DATA, 0, IF is_on THEN 17 ELSE 0), 2, speed)
    ELSE IF action = "set_preset"
    THEN SetB(SetB(ZERO_DATA, 0, 17), 1, REV_VENT_PRESET_MAP(arg))
    ELSE IF action = "set_percentage"
    THEN SetB(SetB(ZERO_DATA, 0, IF arg = 0 THEN 0 ELSE 17), 2, arg)
    ELSE SetB(ZERO_DATA, 0, IF action = "turn_on" THEN 17 ELSE 0)

\* _generate_thermostat
generate_thermostat(st, action, arg) ==
    IF action = "query"
    THEN IF st.known
         THEN SetB(SetB(SetB(ZERO_DATA, 0, IF st.state.hvac_mode = "heat" THEN 17 ELSE 0),
                        1, 0),
                   2, int10(st.state.target_temp))
         ELSE ZERO_DATA
    ELSE IF action = "set_hvac"
    THEN SetB(SetB(ZERO_DATA, 0, IF arg = "heat" THEN 17 ELSE 0), 1, 0)
    ELSE IF action = "set_preset"
    THEN SetB(SetB(ZERO_DATA, 0, 17), 1, IF arg = "away" THEN 1 ELSE 0)
    ELSE IF action = "set_temperature"
    THEN SetB(SetB(ZERO_DATA, 0, 17), 2, int10(arg))
    ELSE ZERO_DATA

\* _generate_airconditioner
generate_airconditioner(st, action, arg) ==
    LET current_hvac == IF st.known THEN st.state.hvac_mode ELSE "off"
        current_fan == IF st.known THEN st.state.fan_mode ELSE "low"
        current_target == IF st.known THEN st.state.target_temp ELSE 240
        d0 == IF current_hvac = "off" THEN ZERO_DATA
              ELSE SetB(SetB(ZERO_DATA, 0, 16), 1, REV_AC_HVAC_MAP(current_hvac))
        d1 == SetB(SetB(d0, 2, REV_AC_FAN_MAP(current_fan)), 5, int10(current_target))
        powered == IF At(d1, 0) = 0 THEN SetB(d1, 0, 16) ELSE d1
    IN  IF action = "query" THEN d1
        ELSE IF action = "set_hvac"
        THEN IF arg = "off" THEN SetB(d1, 0, 0)
             ELSE SetB(SetB(d1, 0, 16), 1, REV_AC_HVAC_MAP(arg))
        ELSE IF action = "set_fan" THEN SetB(powered, 2, REV_AC_FAN_MAP(arg))
        ELSE IF action = "set_temperature" THEN SetB(powered, 5, int10(arg))
        ELSE d1

\* _handle_ventilation: the state dict decoded from a status payload
handle_ventilation(payload) ==
    [state |-> At(payload, 0) \div 16 = 1,
     preset_mode |-> VENTILATION_PRESET_MAP(At(payload, 1)),
     speed |-> At(payload, 2)]

\* _handle_airconditioner: the state dict decoded from a status payload
handle_airconditioner(payload) ==
    [hvac_mode |-> IF At(payload, 0) = 16
                   THEN (IF At(payload, 1) \in 0 .. 3
                         THEN AC_HVAC_MAP[At(payload, 1) + 1] ELSE "off")
                   ELSE "off",
     fan_mode |-> IF At(payload, 2) \in 1 .. 4 THEN AC_FAN_MAP[At(payload, 2)] ELSE "low",
     current_temp |-> float10(At(payload, 4)),
     target_temp |-> float10(At(payload, 5))]

\* REV_DT_MAP: the wire code of a device type
REV_DT_MAP(dt) ==
    IF dt = "LIGHT" THEN 14 ELSE IF dt = "OUTLET" THEN 59
    ELSE IF dt = "THERMOSTAT" THEN 54 ELSE IF dt = "AIRCONDITIONER" THEN 57
    ELSE IF dt = "VENTILATION" THEN 72 ELSE IF dt = "GASVALVE" THEN 44
    ELSE IF dt = "ELEVATOR" THEN 68 ELSE IF dt = "MOTION" THEN 96
    ELSE 152

\* variant: the checksum covers the data bytes only
command_packet_datasum(head, data) ==
    PACKET_PREFIX \o head \o data \o <<checksum(data)>> \o PACKET_SUFFIX

\* generate_command, lines 827-829: body, checksum and packet; head is
\* type_bytes, padding, dest, src and command
command_packet(head, data) ==
    LET body == head \o data
    IN  PACKET_PREFIX \o body \o <<checksum(body)>> \o PACKET_SUFFIX

\* generate_command for a command it does not raise for: the packet; reg is
\* the registry (read for lights and outlets), st is registry.get(key)
generate_command(reg, st, key, action, arg) ==
    LET dt == key.dt
        room == key.room % 256
        data == IF dt \in {"LIGHT", "OUTLET"} THEN generate_switch(reg, key, action)
                ELSE IF dt = "VENTILATION" THEN generate_ventilation(st, action, arg)
                ELSE IF dt = "THERMOSTAT" THEN generate_thermostat(st, action, arg)
                ELSE IF dt = "AIRCONDITIONER" THEN generate_airconditioner(st, action, arg)
                ELSE ZERO_DATA
        head == IF dt = "ELEVATOR" THEN <<48, 188, 0, 1, 0, 68, room, 1>>
                ELSE <<48, 188, 0, REV_DT_MAP(dt), room, 1, 0,
                       IF dt = "GASVALVE" THEN 2 ELSE 0>>
    IN  command_packet(head, data)

\* the registry states a query is generated from: every field value the
\* handlers decode
QStates(key) ==
    IF key.dt = "VENTILATION"
    THEN [state : BOOLEAN, preset_mode : VENT_PRESETS, speed : {0, 64, 128, 192}]
    ELSE IF key.dt = "THERMOSTAT"
    THEN [hvac_mode : {"heat", "off"}, preset_mode : {"none", "away"},
          target_temp : {200, 220}, current_temp : {220}]
    ELSE [hvac_mode : {"off"} \cup {AC_HVAC_MAP[b] : b \in 1 .. 4},
          fan_mode : {AC_FAN_MAP[b] : b \in 1 .. 4},
          target_temp : {240, 260}, current_temp : {250}]

QKeys == {VENT_V, THERMO_T, AIRCON_A}
QInputs ==
    UNION { { [op |-> "input", key |-> key, state |-> st, data |-> <<>>,
               decoded |-> st] : st \in QStates(key) } : key \in QKeys }

\* the commands generate_command is called with, and what registry.get
\* returns for the key: nothing, or a state the handlers decode
PKeys == {LIGHT_X, LIGHT_Z, OUTLET_O, VENT_V, THERMO_T, AIRCON_A, GAS_G, ELEV_E}
\* the identities _generate_switch looks up: the eight sub-devices of the
\* rooms of the light and outlet keys
PRegKeys ==
    UNION { {[k EXCEPT !.idx = i] : i \in 0 .. NSUB - 1} : k \in {LIGHT_X, LIGHT_Z, OUTLET_O} }
PStates(key) ==
    IF key \in QKeys
    THEN {[known |-> FALSE]} \cup {[known |-> TRUE, state |-> st] : st \in ExStates(key)}
    ELSE {[known |-> FALSE]}
PInputs ==
    UNION { UNION { { [op |-> "input", key |-> key, action |-> action, arg |-> arg,
                       st |-> st, packet |-> <<>>, fed |-> <<>>] :
                      arg \in ExArgs(action), st \in PStates(key) } :
                    key \in PKeys } :
            action \in ExActions }

\* generate_command(key, action, **kwargs) returns a packet or raises; the
\* packet is then passed to feed() of a controller with an empty buffer
PacketEncode ==
    /\ fn_op.op = "input"
    /\ LET c == [key |-> fn_op.key, action |-> fn_op.action, arg |-> fn_op.arg] IN
       IF generate_ok(c)
       THEN LET packet == generate_command(registry, fn_op.st, c.key, c.action, c.arg)
            IN  fn_op' = [fn_op EXCEPT !.op = "packet", !.packet = packet,
                            !.fed = split_buf(rb_append(<<>>, packet), <<>>).packets]
       ELSE fn_op' = [fn_op EXCEPT !.op = "raised"]
    /\ UNCHANGED <<sw_op, th_storage, th_last, th_half, th_packet, auxVars, ereg, rcVars,
                   rc_new, esc_owed, frameVars, callVars, gwVars, senderVars>>

\* generate_command(key, "query") with the registry holding fn_op.state for
\* key, and the status payload with these data bytes decoded by the
\* handler of the device type (nothing in _device_storage)
QueryEncode ==
    /\ fn_op.op = "input"
    /\ LET st == [known |-> TRUE, state |-> fn_op.state]
           dt == fn_op.key.dt
           data == IF dt = "VENTILATION" THEN generate_ventilation(st, "query", "none")
                   ELSE IF dt = "THERMOSTAT" THEN generate_thermostat(st, "query", "none")
                   ELSE generate_airconditioner(st, "query", "none")
           decoded ==
               IF dt = "VENTILATION" THEN handle_ventilation(data)
               ELSE IF dt = "THERMOSTAT"
               THEN thermo_state(handle_thermostat(
                        [step |-> ABSENT, target |-> ABSENT, current |-> ABSENT],
                        mk_thermo_frame(data)).dev).state
               ELSE handle_airconditioner(data)
       IN  fn_op' = [fn_op EXCEPT !.op = "query", !.data = data, !.decoded = decoded]
    /\ UNCHANGED <<sw_op, th_storage, th_last, th_half, th_packet, auxVars, ereg, rcVars,
                   rc_new, esc_owed, frameVars, callVars, gwVars, senderVars>>

(***************************************************************************)
(* EntityRegistry with its per-platform index                               *)
(***************************************************************************)
\* DeviceKey.unique_id: one string per key tuple; the key stands for it
unique_id(key) == key

\* dict.pop(k, None)
dict_pop(d, k) == [x \in DOMAIN d \ {k} |-> d[x]]

\* d[k] = v
dict_set(d, k, v) == (k :> v) @@ d

\* variant: the entry under the old platform is left in the index
index_pop_keep(bp, platform, uid) == bp

\* "self.by_platform.get(old.platform, {}).pop(old.key.unique_id, None)"
index_pop(bp, platform, uid) ==
    IF platform \in DOMAIN bp
    THEN [bp EXCEPT ![platform] = dict_pop(@, uid)]
    ELSE bp

\* "self.by_platform.setdefault(dev.platform, {})[dev.key.unique_id] = dev"
index_put(bp, dev) ==
    LET inner == IF dev.platform \in DOMAIN bp THEN bp[dev.platform] ELSE <<>>
    IN  dict_set(bp, dev.platform, dict_set(inner, unique_id(dev.key), dev))

\* EntityRegistry.upsert on the whole registry: the registry afterwards and
\* the pair returned
registry_upsert(r, dev, allow) ==
    LET k == dev.key
        is_new == k \notin DOMAIN r.states
    IN  IF is_new /\ ~allow
        THEN [r EXCEPT !.last = [op |-> "upsert", ret |-> <<FALSE, FALSE>>]]
        ELSE IF is_new
        THEN [r EXCEPT !.states = dict_set(@, k, dev),
                       !.by_platform = index_put(@, dev),
                       !.last = [op |-> "upsert", ret |-> <<TRUE, TRUE>>]]
        ELSE LET old == r.states[k]
                 platform_changed == old.platform # dev.platform
                 changed == platform_changed \/ old.state # dev.state
                            \/ old.attribute # dev.attribute
                 bp1 == IF platform_changed
                        THEN index_pop(r.by_platform, old.platform, unique_id(old.key))
                        ELSE r.by_platform
             IN  IF changed
                 THEN [r EXCEPT !.states = dict_set(@, k, dev),
                                !.by_platform = index_put(bp1, dev),
                                !.last = [op |-> "upsert", ret |-> <<FALSE, TRUE>>]]
                 ELSE [r EXCEPT !.last = [op |-> "upsert", ret |-> <<FALSE, FALSE>>]]

\* EntityRegistry.promote
registry_promote(r, key) ==
    IF key \notin DOMAIN r.shadow
    THEN [r EXCEPT !.last = [op |-> "promote", ret |-> <<FALSE>>]]
    ELSE LET dev == r.shadow[key] IN
         [r EXCEPT !.shadow = dict_pop(@, key),
                   !.states = dict_set(@, key, dev),
                   !.by_platform = index_put(@, dev),
                   !.last = [op |-> "promote", ret |-> <<TRUE>>]]

\* the DeviceState values upsert is called with
IdxKeys == {LIGHT_X, LIGHT_Y, VENT_V}
PLATFORMS == {"light", "switch", "fan"}
IdxDevs == [key : IdxKeys, platform : PLATFORMS, state : BOOLEAN, attribute : {"attr"}]

RegUpsert ==
    /\ \E dev \in IdxDevs, allow \in BOOLEAN : ereg' = registry_upsert(ereg, dev, allow)
    /\ UNCHANGED <<sw_op, th_storage, th_last, th_half, th_packet, auxVars, fn_op, rcVars,
                   rc_new, esc_owed, frameVars, callVars, gwVars, senderVars>>

RegPromote ==
    /\ \E key \in IdxKeys : ereg' = registry_promote(ereg, key)
    /\ UNCHANGED <<sw_op, th_storage, th_last, th_half, th_packet, auxVars, fn_op, rcVars,
                   rc_new, esc_owed, frameVars, callVars, gwVars, senderVars>>

(***************************************************************************)
(* Elevator decoding (_handle_elevator)                                     *)
(***************************************************************************)
\* PacketFrame.packet_type
frame_packet_type(raw) == (At(raw, 3) \div 16) % 16

\* type(2) pad(1) dest(2) src(2) command(1): a frame of elevator room 0 whose
\* second type byte is t
mk_elevator_frame(t, payload) ==
    LET body == <<48, t, 0, 1, 0, 68, 0, 0>> \o payload
    IN  PACKET_PREFIX \o body \o <<checksum(body)>> \o PACKET_SUFFIX

ELEVATOR_DIRECTION_MAP == (0 :> "idle") @@ (1 :> "downward") @@ (2 :> "upward")
                          @@ (3 :> "arrival")

digit(d) ==
    CASE d = 0 -> "0" [] d = 1 -> "1" [] d = 2 -> "2" [] d = 3 -> "3" [] d = 4 -> "4"
      [] d = 5 -> "5" [] d = 6 -> "6" [] d = 7 -> "7" [] d = 8 -> "8" [] d = 9 -> "9"

\* str(n) of a non-negative integer
RECURSIVE str(_)
str(n) == IF n < 10 THEN digit(n) ELSE str(n \div 10) \o digit(n % 10)

\* chr(c), for the codes of the digits and of the letters B and L
chr(c) ==
    CASE c \in 48 .. 57 -> digit(c - 48)
      [] c = 66 -> "B"
      [] c = 76 -> "L"

\* the state of the switch DeviceState
elevator_power(packet) ==
    LET p0 == At(frame_payload(packet), 0) IN
    IF p0 = 3 THEN FALSE
    ELSE p0 \in {1, 2} \/ frame_packet_type(packet) = 13

\* the state of the DIRECTION DeviceState
elevator_direction(packet) ==
    LET p0 == At(frame_payload(packet), 0) IN
    IF p0 = 0 /\ frame_packet_type(packet) = 13 THEN "called"
    ELSE IF p0 \in DOMAIN ELEVATOR_DIRECTION_MAP THEN ELEVATOR_DIRECTION_MAP[p0]
    ELSE "unknown"

\* the state of the FLOOR DeviceState
elevator_floor(packet) ==
    LET p1 == At(frame_payload(packet), 1)
        p2 == At(frame_payload(packet), 2)
    IN  IF p1 = 0 THEN "unknown"
        ELSE IF p2 # 0 THEN chr(p1) \o chr(p2)
        ELSE IF p1 \div 16 = 8 THEN "B" \o str(p1 % 16)
        ELSE str(p1)

\* variant: the floor state is emitted only for a frame that carries a floor
floor_available_own(storage, floor) == floor # "" /\ floor # "unknown"

\* _device_storage["available_floor"] after the frame's floor is decoded
floor_available(storage, floor) == storage \/ (floor # "" /\ floor # "unknown")

ElevKey(packet, sub) ==
    [dt |-> "ELEVATOR", room |-> At(frame_peer(packet), 1), idx |-> 0, sub |-> sub]

\* _handle_elevator: the DeviceStates and _device_storage afterwards
handle_elevator(storage, packet) ==
    LET floor == elevator_floor(packet)
        avail == floor_available(storage, floor)
        first == << [key |-> ElevKey(packet, "NONE"), platform |-> "switch",
                     state |-> elevator_power(packet)],
                    [key |-> ElevKey(packet, "DIRECTION"), platform |-> "sensor",
                     state |-> elevator_direction(packet)] >>
    IN  [states |-> IF avail
                    THEN Append(first, [key |-> ElevKey(packet, "FLOOR"),
                                        platform |-> "sensor", state |-> floor])
                    ELSE first,
         storage |-> avail]

\* payload[1] and payload[2] of the frames: no floor (with and without a
\* second byte), floors 5 and B2, and the two-character floors "12" and "B1"
FloorBytes == { <<0, 0>>, <<0, 50>>, <<5, 0>>, <<130, 0>>, <<49, 50>>, <<66, 49>> }

\* an elevator frame goes through _dispatch_packet
ElDecode ==
    \E t \in {188, 220}, p0 \in {0, 1, 2, 3}, fb \in FloorBytes :
        LET packet == mk_elevator_frame(t, <<p0, fb[1], fb[2], 0, 0, 0, 0, 0>>)
            r == handle_elevator(el_storage, packet)
        IN  /\ dispatch_packet(packet)
            /\ el_storage' = r.storage
            /\ el_states' = r.states
            /\ el_packet' = packet
            /\ el_known' = (el_known \/ elevator_floor(packet) # "unknown")
            /\ UNCHANGED <<sw_op, th_storage, th_last, th_half, th_packet, fn_op, ereg,
                           idleVars, rep, disp, rcVars, rc_new, esc_owed, frameVars, callVars,
                           gwVars, senderVars>>

(***************************************************************************)
(* The idle wait of _sender_loop (gateway.py 302-314); one tick is 0.01 s   *)
(***************************************************************************)
IDLE_GAP == 10           \* IDLE_GAP_SEC = 0.10
IDLE_WAIT == 100         \* "time() - t0 > 1.0"
POLL == 1                \* asyncio.sleep(0.01)

\* variant: the bus always counts as idle
is_idle_always(idle) == TRUE

\* KocomGateway.is_idle
is_idle(idle) == idle >= IDLE_GAP

\* the rest of this task step once the while loop is left: the loop breaks
\* when the transport is not connected, else conn.send writes the packet
\* and awaits drain()
AfterIdleWait ==
    /\ i_pc' = IF connected THEN "drain" ELSE "attempt"
    /\ sleep_left' = 0

\* "t0 = ...time()" and the first test of the while loop
IdleAttempt ==
    /\ i_pc = "attempt"
    /\ waited' = 0
    /\ IF is_idle(idle_since) THEN AfterIdleWait
       ELSE i_pc' = "sleep" /\ sleep_left' = POLL
    /\ UNCHANGED <<idle_since, sw_op, th_storage, th_last, th_half, th_packet, fn_op,
                   ereg, elVars, rep, disp, rcVars, rc_new, esc_owed, frameVars, callVars, gwVars,
                   senderVars>>

\* sleep(0.01) returns: the 1.0 s test, then the loop's test again
IdlePoll ==
    /\ i_pc = "sleep"
    /\ sleep_left = 0
    /\ IF waited > IDLE_WAIT \/ is_idle(idle_since) THEN AfterIdleWait
       ELSE i_pc' = "sleep" /\ sleep_left' = POLL
    /\ UNCHANGED <<idle_since, waited, sw_op, th_storage, th_last, th_half, th_packet,
                   fn_op, ereg, elVars, rep, disp, rcVars, rc_new, esc_owed, frameVars, callVars,
                   gwVars, senderVars>>

\* conn.send: drain() returns and _touch() is called, or drain() fails
IdleDrained ==
    /\ i_pc = "drain"
    /\ i_pc' = "confirm"
    /\ \E ok \in BOOLEAN : idle_since' = IF ok THEN 0 ELSE idle_since
    /\ UNCHANGED <<waited, sleep_left, sw_op, th_storage, th_last, th_half, th_packet,
                   fn_op, ereg, elVars, rep, disp, rcVars, rc_new, esc_owed, frameVars, callVars,
                   gwVars, senderVars>>

\* _wait_for_confirmation ends (and the retry gap, if any): the next
\* attempt, or the next command's first
IdleConfirmEnd ==
    /\ i_pc = "confirm"
    /\ i_pc' = "attempt"
    /\ UNCHANGED <<idle_since, waited, sleep_left, sw_op, th_storage, th_last, th_half,
                   th_packet, fn_op, ereg, elVars, rep, disp, rcVars, rc_new, esc_owed, frameVars,
                   callVars, gwVars, senderVars>>

\* conn.recv returns a chunk: _touch()
RecvTouch ==
    /\ connected
    /\ idle_since' = 0
    /\ UNCHANGED <<i_pc, waited, sleep_left, sw_op, th_storage, th_last, th_half,
                   th_packet, fn_op, ereg, elVars, rep, disp, rcVars, rc_new, esc_owed, frameVars,
                   callVars, gwVars, senderVars>>

\* 0.01 s pass; not while the sender task is ready to run
Tick ==
    /\ i_pc # "attempt"
    /\ ~(i_pc = "sleep" /\ sleep_left = 0)
    /\ idle_since' = IF idle_since < IDLE_GAP THEN idle_since + 1 ELSE idle_since
    /\ waited' = IF waited < IDLE_WAIT + 2 THEN waited + 1 ELSE waited
    /\ sleep_left' = IF sleep_left > 0 THEN sleep_left - 1 ELSE 0
    /\ UNCHANGED <<i_pc, sw_op, th_storage, th_last, th_half, th_packet, fn_op, ereg,
                   elVars, rep, disp, rcVars, rc_new, esc_owed, frameVars, callVars, gwVars,
                   senderVars>>

(***************************************************************************)
(* The dispatcher signals of on_device_state                                *)
(***************************************************************************)
\* variant: a decode of a registered identity always sends device-updated
signals_always(is_new, changed) ==
    IF is_new THEN {"new_device"} ELSE {"device_updated"}

\* on_device_state: the signals sent for the pair upsert returned
signals(is_new, changed) ==
    IF is_new THEN {"new_device"}
    ELSE IF changed THEN {"device_updated"}
    ELSE {}

\* on_device_state on the whole registry. force: _force_register_uid is the
\* unique_id of dev (a packet replayed by _async_put_entity_dispatch_packet)
NotifyDecode ==
    /\ \E dev \in IdxDevs, force \in BOOLEAN :
          LET allow == allow_insert(dev) \/ force
              r == registry_upsert(ereg, dev, allow)
              sent == signals(r.last.ret[1], r.last.ret[2])
              had == dev.key \in DOMAIN ereg.states
          IN  /\ ereg' = r
              /\ disp' = [new |-> [disp.new EXCEPT ![dev.key] =
                                      IF "new_device" \in sent /\ @ < 2 THEN @ + 1 ELSE @],
                          last |-> [op |-> "decode", dev |-> dev, allow |-> allow,
                                    had |-> had,
                                    differs |-> had /\ ereg.states[dev.key] # dev,
                                    sent |-> sent]]
    /\ UNCHANGED <<sw_op, th_storage, th_last, th_half, th_packet, elVars, idleVars, rep,
                   fn_op, rcVars, rc_new, esc_owed, frameVars, callVars, gwVars,
                   senderVars>>

(***************************************************************************)
(* Initial states and specifications                                        *)
(***************************************************************************)
InitFrameState ==
    /\ pos = 0
    /\ rx_buf = <<>>
    /\ out = <<>>
    /\ handled = <<>>

\* KocomGateway.__init__, and async_start up to the creation of the tasks
InitGatewayRest ==
    /\ cmd = <<>>
    /\ fut = <<>>
    /\ ret = <<>>
    /\ nset = <<>>
    /\ matched = <<>>
    /\ tx_queue = <<>>
    /\ pendings = <<>>
    /\ failures = 0
    /\ stop_pc = "running"
    /\ calls_at_stop = 0
    /\ s_pc = "get"
    /\ s_item = 0
    /\ s_attempt = 0
    /\ s_wfut = "none"
    /\ s_sends = 0
    /\ s_gaps = 0
    /\ taken = <<>>

\* EntityRegistry.__init__: no entries
InitGatewayState == InitGatewayRest /\ registry = [k \in RegKeys |-> "None"]

\* KocomController.__init__: _device_storage = {}; AsyncConnection.__post_init__
InitExtRest ==
    /\ sw_op = NO_OP
    /\ th_storage = [step |-> ABSENT, target |-> ABSENT, current |-> ABSENT]
    /\ th_last = NO_STATE
    /\ th_packet = <<>>
    /\ ereg = NO_ENTRIES
    /\ th_half = 0
    /\ el_storage = FALSE
    /\ el_states = <<>>
    /\ el_packet = <<>>
    /\ el_known = FALSE
    /\ i_pc = "attempt"
    /\ idle_since = 0
    /\ waited = 0
    /\ sleep_left = 0
    /\ rep = {}
    /\ disp = [new |-> [k \in IdxKeys |-> 0], last |-> [op |-> "none"]]
    /\ link = "up"
    /\ r_pc = "loop"
    /\ rc_new = {}
    /\ rc_active = <<>>
    /\ rc_lock = FALSE
    /\ last_reconn_delay = 0
    /\ rc_hist = <<>>
    /\ eof_owed = FALSE
    /\ esc_owed = FALSE
    /\ rc_skipped = FALSE

InitExt == InitExtRest /\ fn_op = NO_FN

\* a started gateway with nothing submitted, and the arguments fn_op holds
InitFn(inputs) ==
    /\ stream = <<>> /\ InitFrameState /\ InitGatewayState /\ connected = TRUE
    /\ InitExtRest
    /\ fn_op \in inputs

InitFrame == stream \in ValidStreams /\ InitFrameState /\ InitGatewayState /\ connected = TRUE /\ InitExt
InitSplit == stream \in SplitStreams /\ InitFrameState /\ InitGatewayState /\ connected = TRUE /\ InitExt

\* async_start: conn.open() succeeds or fails (the reader loop reconnects)
Init == stream = <<>> /\ InitFrameState /\ InitGatewayState /\ connected \in BOOLEAN /\ InitExt
InitQ == stream = <<>> /\ InitFrameState /\ InitGatewayState /\ connected = TRUE /\ InitExt
InitG ==
    /\ stream = <<>> /\ InitFrameState /\ InitGatewayRest /\ connected = TRUE /\ InitExt
    /\ registry = [k \in RegKeysG |-> "None"]
InitExpect == InitFn(ExInputs)
InitQuery == InitFn(QInputs)
InitPacket ==
    /\ stream = <<>> /\ InitFrameState /\ InitGatewayRest /\ connected = TRUE
    /\ InitExtRest
    /\ fn_op \in PInputs
    /\ registry \in {[k \in PRegKeys |-> IF k = LIGHT_Y THEN v ELSE "None"] :
                         v \in {"None", "True", "False"}}
InitSwitch ==
    /\ stream = <<>> /\ InitFrameState /\ InitGatewayRest /\ connected = TRUE /\ InitExt
    /\ registry = [k \in SwitchKeys |-> "None"]

InitNoise == stream \in NoiseStreams /\ InitFrameState /\ InitGatewayState /\ connected = TRUE /\ InitExt
NextFrame == FeedChunk
NextSplit == FeedWhole

Next ==
    \/ SendAction
    \/ CallerReturn
    \/ CallerCancel
    \/ SenderGet
    \/ SenderTransmit
    \/ SenderDrained
    \/ SenderConfirmed
    \/ SenderTimeout
    \/ SenderGapDone
    \/ OnDeviceState
    \/ Reconnect
    \/ StopSender
    \/ StopRest

NextQ ==
    \/ SendActionQ
    \/ SenderGet
    \/ SenderTransmit
    \/ SenderDrained
    \/ SenderTimeout
    \/ SenderGapDone

NextE ==
    \/ SendActionE
    \/ CallerReturn
    \/ CallerCancel
    \/ SenderGet
    \/ SenderTransmit
    \/ SenderDrained
    \/ SenderConfirmed
    \/ SenderTimeout
    \/ SenderGapDone
    \/ OnDeviceState
    \/ Reconnect

NextL ==
    \/ SendActionL
    \/ CallerReturn
    \/ CallerCancel
    \/ SenderGet
    \/ SenderTransmit
    \/ SenderDrained
    \/ SenderConfirmed
    \/ SenderTimeout
    \/ SenderGapDone
    \/ OnDeviceState
    \/ Reconnect
    \/ StopSender
    \/ StopRest

\* the event loop runs the sender task whenever it can go on: get() returns
\* when the queue has an item, the idle wait ends after at most 1.0 s,
\* drain() after at most 2.0 s, wait_for after the confirmation timeout,
\* and the retry gap after SEND_RETRY_GAP
FairSender ==
    /\ WF_vars(SenderGet)
    /\ WF_vars(SenderTransmit)
    /\ WF_vars(SenderDrained)
    /\ WF_vars(SenderConfirmed)
    /\ WF_vars(SenderTimeout)
    /\ WF_vars(SenderGapDone)

NextC ==
    \/ SendActionC
    \/ SenderGet
    \/ SenderTransmit
    \/ SenderDrained
    \/ SenderTimeout
    \/ SenderGapDone
    \/ ReaderLoop
    \/ ReaderSleepDone
    \/ RcRunDetached
    \/ RcWake
    \/ RcOpenOk
    \/ RcOpenFail
    \/ LinkDrop

\* the transport, the reader and the sender, with async_stop
NextStop ==
    \/ SendActionC
    \/ SenderGet
    \/ SenderTransmit
    \/ SenderDrained
    \/ SenderTimeout
    \/ SenderGapDone
    \/ ReaderLoop
    \/ ReaderSleepDone
    \/ RcRunDetached
    \/ RcWake
    \/ RcOpenOk
    \/ RcOpenFail
    \/ LinkDrop
    \/ StopSender
    \/ StopReader

\* the event loop runs the reader task and the reconnect() tasks whenever
\* they can go on, and open() returns or raises within connect_timeout
FairConn ==
    /\ WF_vars(ReaderLoop)
    /\ WF_vars(ReaderSleepDone)
    /\ WF_vars(RcRunDetached)
    /\ WF_vars(RcWake)
    /\ WF_vars(RcOpenOk \/ RcOpenFail)

NextF ==
    \/ SendActionF
    \/ SenderGet
    \/ SenderTransmit
    \/ SenderDrained
    \/ SenderConfirmed
    \/ SenderTimeout
    \/ SenderGapDone
    \/ OnDeviceStateX
    \/ Reconnect

NextG ==
    \/ SendActionG
    \/ CallerReturn
    \/ SenderGet
    \/ SenderTransmit
    \/ SenderDrained
    \/ SenderConfirmed
    \/ SenderTimeout
    \/ SenderGapDone
    \/ OnDeviceStateG

\* the reader and the sender, with callers
NextR ==
    \/ SendActionR
    \/ CallerReturn
    \/ SenderGet
    \/ SenderTransmit
    \/ SenderDrained
    \/ SenderConfirmed
    \/ SenderTimeout
    \/ SenderGapDone
    \/ OnDeviceStateR

NextExpect == ExpectEval
NextQuery == QueryEncode
NextPacket == PacketEncode
NextIndex == RegUpsert \/ RegPromote

NextNotify == NotifyDecode \/ RegPromote

NextBackoff ==
    \/ ClientReconnect
    \/ ClientClose
    \/ RcRunDetached
    \/ RcWake
    \/ RcOpenOk
    \/ RcOpenFail

NextSwitch == SwStatus \/ SwEncode
NextThermo == ThDecode
NextElevator == ElDecode
NextIdle ==
    \/ IdleAttempt
    \/ IdlePoll
    \/ IdleDrained
    \/ IdleConfirmEnd
    \/ RecvTouch
    \/ Tick

SpecFrame == InitFrame /\ [][NextFrame]_vars
SpecSplit == InitSplit /\ [][NextSplit]_vars
SpecNoise == InitNoise /\ [][NextFrame]_vars
Spec == Init /\ [][Next]_vars
SpecQueue == InitQ /\ [][NextQ]_vars
SpecEncode == Init /\ [][NextE]_vars
SpecSwitch == InitSwitch /\ [][NextSwitch]_vars
SpecLive == Init /\ [][NextL]_vars /\ FairSender
SpecConn == Init /\ [][NextC]_vars
SpecConnFair == Init /\ [][NextC]_vars /\ FairSender /\ FairConn
SpecBackoff == Init /\ [][NextBackoff]_vars
SpecThermo == Init /\ [][NextThermo]_vars
SpecElevator == Init /\ [][NextElevator]_vars
SpecStop == Init /\ [][NextStop]_vars
SpecRace == InitQ /\ [][NextR]_vars
SpecIdle == Init /\ [][NextIdle]_vars
SpecCount == Init /\ [][NextF]_vars
SpecTurnOn == InitG /\ [][NextG]_vars
SpecExpect == InitExpect /\ [][NextExpect]_vars
SpecQuery == InitQuery /\ [][NextQuery]_vars
SpecPacket == InitPacket /\ [][NextPacket]_vars
SpecIndex == InitQ /\ [][NextIndex]_vars
SpecNotify == InitQ /\ [][NextNotify]_vars

\* the packets a single feed() of the whole stream returns
WholeOut(s) == split_buf(rb_append(<<>>, s), <<>>).packets

\* the frames of a stream, cut at multiples of PACKET_LEN
FrameAt(s, k) == SubSeq(s, (k - 1) * PACKET_LEN + 1, k * PACKET_LEN)
FramesOf(s) == [k \in 1 .. (Len(s) \div PACKET_LEN) |-> FrameAt(s, k)]

Fed == pos = Len(stream)

(***************************************************************************)
(* Claims on framing                                                        *)
(***************************************************************************)
Middle == FrameAt(stream, 2)
TailFrames == SubSeq(FramesOf(stream), 3, Len(FramesOf(stream)))

\* C1 (framing idempotence): once a stream of valid frames has been fed in
\* chunks, whatever the chunk boundaries were, the packets dispatched are
\* those a single feed() of the whole stream dispatches.
C1_FramingIdempotence == Fed => out = WholeOut(stream)

\* An AA 55 pair at offset k of the suffix-broken frame x whose 21-byte
\* window ends on 0D 0D at offsets k-2, k-1 of the frame b that follows.
FalseSync(x, b) ==
    \E k \in 4 .. PACKET_LEN - 2 :
        /\ Slice(x, k, k + 2) = PACKET_PREFIX
        /\ Slice(b, k - 2, k) = PACKET_SUFFIX

\* C2 as stated (resync correctness): a valid frame, a suffix-broken frame
\* and valid frames after it yield exactly the valid frames, in order,
\* whatever the bytes of the frames are.
C2_ResyncAnyBody ==
    (Fed /\ Middle \in SuffixBroken) =>
        out = <<FrameAt(stream, 1)>> \o TailFrames

\* C2 (amended): the same, for streams in which no AA 55 pair inside the
\* suffix-broken frame opens a 21-byte window that ends on 0D 0D inside the
\* frame after it.
C2_Resync ==
    (Fed /\ Middle \in SuffixBroken /\ ~FalseSync(Middle, FrameAt(stream, 3))) =>
        /\ out = <<FrameAt(stream, 1)>> \o TailFrames
        /\ rx_buf = <<>>

\* C2 witness: a suffix-broken frame that holds AA 55 in its payload was
\* skipped byte by byte and the frames around it were returned.
C2_Witness ==
    /\ Fed
    /\ Middle \in SuffixBroken
    /\ rb_find(Slice(Middle, 2, PACKET_LEN), PACKET_PREFIX) >= 0
    /\ ~FalseSync(Middle, FrameAt(stream, 3))
    /\ out = <<FrameAt(stream, 1)>> \o TailFrames

\* C3 (checksum rejection): a frame with one payload byte changed reaches no
\* device handler, exactly its 21 bytes are consumed (it is returned as one
\* packet and the buffer is left empty), and every other frame of the stream
\* is still handled, in order.
C3_ChecksumRejection ==
    (Fed /\ Middle \in ChecksumBroken) =>
        /\ out = FramesOf(stream)
        /\ handled = <<FrameAt(stream, 1)>> \o TailFrames
        /\ rx_buf = <<>>

\* C3 witness: a checksum-broken frame was returned by _split_buf and the
\* frame after it was handled.
C3_Witness ==
    /\ Fed
    /\ Middle \in ChecksumBroken
    /\ Len(out) >= 3 /\ out[2] = Middle
    /\ Len(handled) >= 2 /\ handled[2] = FrameAt(stream, 3)

(***************************************************************************)
(* Claims on the gateway                                                    *)
(***************************************************************************)
Calls == 1 .. Len(cmd)

\* C4 (backpressure): the queue never holds more than QUEUE_MAXSIZE items,
\* and a call made while the queue is full enqueues nothing, creates no
\* item and has returned False in the same step (it never blocks).
C4_Backpressure ==
    /\ [](Len(tx_queue) <= QUEUE_MAXSIZE)
    /\ [][(Len(cmd') = Len(cmd) + 1 /\ Len(tx_queue) >= QUEUE_MAXSIZE) =>
            /\ tx_queue' = tx_queue
            /\ fut'[Len(cmd')] = "none"
            /\ ret'[Len(cmd')] = "False"]_vars

\* C4 witness: a call was rejected and the queue holds QUEUE_MAXSIZE items.
C4_Witness ==
    /\ Len(tx_queue) = QUEUE_MAXSIZE
    /\ \E c \in Calls : fut[c] = "none" /\ ret[c] = "False"

\* C5 (one outcome per command): the future of every accepted command is
\* resolved at most once, and a result it holds is a boolean.
C5_OneOutcome ==
    \A c \in Calls :
        /\ nset[c] <= 1
        /\ fut[c] \in {"none", "pending", "cancelled", "True", "False"}
        /\ (fut[c] \in {"True", "False", "cancelled"}) => nset[c] = 1

\* C5 witness: the caller of a command was cancelled and the sender loop
\* then finished that command after transmitting it.
C5_Witness ==
    \E i \in 1 .. Len(taken) :
        /\ fut[taken[i]] = "cancelled"
        /\ taken[i] # s_item
        /\ i = Len(taken) /\ s_sends >= 1

\* C6 (shutdown resolves commands): once async_stop has finished, no command
\* accepted before that has a pending future.
C6_ShutdownResolves ==
    stop_pc = "stopped" =>
        \A c \in 1 .. calls_at_stop : fut[c] # "pending"

\* C7 (success implies confirmation): a call returns True only if a decoded
\* state of its identity that satisfies its predicate was processed during
\* one of its confirmation windows.
C7_SuccessImpliesConfirmation ==
    \A c \in Calls : ret[c] = "True" => matched[c]

\* C7 witness: a call has returned True.
C7_Witness == \E c \in Calls : ret[c] = "True" /\ matched[c]

TurnOffX == [key |-> LIGHT_X, action |-> "turn_off", arg |-> "none"]

PendingTurnOffX ==
    /\ s_pc = "confirm"
    /\ s_wfut = "pending"
    /\ cmd[s_item] = TurnOffX
    /\ \E i \in 1 .. Len(pendings) : pendings[i].owner = s_item

\* C8 (confirmation matching): while a turn_off on LIGHT_X is pending, a
\* decoded state resolves its waiter (and takes it off the list) exactly
\* when it is a state of LIGHT_X with value false.
C8_ConfirmationMatching ==
    [][\A dev \in Devs :
          (PendingTurnOffX /\ OnDeviceStateOf(dev)) =>
              /\ (s_wfut' = "result") <=> (dev.key = LIGHT_X /\ dev.state = FALSE)
              /\ (pendings' = <<>>) <=> (dev.key = LIGHT_X /\ dev.state = FALSE)]_vars

\* C8 witness: the waiter of a turn_off on LIGHT_X was resolved by a report
\* that inserted nothing into the registry.
C8_Witness ==
    /\ s_pc = "confirm"
    /\ s_wfut = "result"
    /\ cmd[s_item] = TurnOffX
    /\ registry[LIGHT_X] = "None"

\* C9 (retry bound): a command is transmitted at most SEND_RETRY_MAX times;
\* the loop gives up before that only when the transport is not connected;
\* a timeout ends the command only after SEND_RETRY_MAX transmissions and
\* SEND_RETRY_MAX - 1 gaps, and then resolves it False; each retransmission
\* follows a gap; after a confirmation nothing more is transmitted.
C9_RetryBound ==
    /\ [](s_sends <= SEND_RETRY_MAX)
    /\ [][/\ (s_pc = "idle_wait" /\ s_pc' = "get") => ~connected
          /\ (s_pc = "confirm" /\ s_wfut = "pending" /\ s_pc' = "get") =>
                /\ s_sends = SEND_RETRY_MAX
                /\ s_gaps = SEND_RETRY_MAX - 1
                /\ fut[s_item] = "pending" => fut'[s_item] = "False"
          /\ (s_sends' = s_sends + 1) => s_gaps = s_sends
          /\ (s_pc = "confirm" /\ s_wfut = "result") => s_sends' = s_sends]_vars

\* C9 witness: a command was transmitted SEND_RETRY_MAX times and resolved
\* False.
C9_Witness ==
    /\ s_pc = "get"
    /\ s_sends = SEND_RETRY_MAX
    /\ s_gaps = SEND_RETRY_MAX - 1
    /\ taken # <<>>
    /\ fut[taken[Len(taken)]] = "False"

AcceptedIds == SelectSeq([i \in Calls |-> i], LAMBDA i : fut[i] # "none")

\* C10 (FIFO, sequential sends): the sender takes the accepted commands in
\* the order of their submission; while it works on a command every command
\* taken before has a resolved future; and while it transmits, no waiter of
\* an earlier attempt is pending.
C10_FifoSequential ==
    /\ Len(taken) <= Len(AcceptedIds)
    /\ taken = SubSeq(AcceptedIds, 1, Len(taken))
    /\ \A i \in 1 .. Len(taken) : taken[i] # s_item => fut[taken[i]] # "pending"
    /\ s_pc \in {"idle_wait", "drain", "gap"} =>
          /\ s_wfut # "pending"
          /\ \A i \in 1 .. Len(pendings) : pendings[i].owner # s_item

\* C10 witness: the second command is in its second transmission.
C10_Witness ==
    /\ Len(taken) = 2
    /\ s_item = taken[2]
    /\ s_pc = "drain"
    /\ s_attempt = 2

(***************************************************************************)
(* Claims on encoding                                                       *)
(***************************************************************************)
\* a command the claim says cannot be encoded: a device type with no
\* generator, a missing required argument, an unknown preset name
EncodeFails(c) ==
    \/ c.key.dt \in {"MOTION", "AIRQUALITY"}
    \/ c.key.dt = "VENTILATION" /\ c.action = "set_preset" /\ c.arg \notin VENT_PRESETS
    \/ c.key.dt = "THERMOSTAT" /\ c.action = "set_temperature" /\ c.arg = -1

\* C11 (encode failure): a command generate_command raises for is resolved
\* False when the sender takes it (unless its caller was cancelled before),
\* nothing is ever transmitted for it and no waiter is ever created for it.
C11_EncodeFailure ==
    /\ [](\A c \in 1 .. Len(cmd) : EncodeFails(cmd[c]) =>
            /\ s_item # c
            /\ \A i \in 1 .. Len(pendings) : pendings[i].owner # c
            /\ fut[c] # "True"
            /\ (\E i \in 1 .. Len(taken) : taken[i] = c) =>
                   (fut[c] = "False" \/ (fut[c] = "cancelled" /\ ret[c] = "raised")))
    /\ [][(s_sends' > s_sends \/ Len(pendings') > Len(pendings)) =>
              ~EncodeFails(cmd[s_item])]_vars

\* C11 witness: commands with a missing argument and with an unknown
\* preset were taken by the sender and resolved False.
C11_Witness ==
    /\ Len(taken) = 2
    /\ cmd[taken[1]].key = THERMO_T /\ cmd[taken[1]].arg = -1
    /\ cmd[taken[2]].key = VENT_V /\ cmd[taken[2]].arg = "turbo"
    /\ fut[taken[1]] = "False" /\ fut[taken[2]] = "False"
    /\ s_sends = 0

\* C12 (non-clobber encode): the data bytes of a light turn_on/turn_off of
\* sub-device i hold FF (turn_on) or 00 (turn_off) at i, and at every other
\* j hold FF exactly when the registry has sub-device j with value true.
C12_NonClobberEncode ==
    (sw_op.op = "encode" /\ sw_op.action \in {"turn_on", "turn_off"}) =>
        \A j \in 0 .. NSUB - 1 :
            At(sw_op.data, j) =
                IF j = sw_op.idx THEN (IF sw_op.action = "turn_on" THEN 255 ELSE 0)
                ELSE IF registry[LightKey(j)] = "True" THEN 255 ELSE 0

\* C12 witness: turn_on of sub-device 3 with 3 known off, 5 known on and
\* the others unknown gives FF at 3 and 5 only.
C12_Witness ==
    /\ sw_op.op = "encode" /\ sw_op.action = "turn_on" /\ sw_op.idx = 3
    /\ registry[LightKey(3)] = "False" /\ registry[LightKey(5)] = "True"
    /\ \A j \in (0 .. NSUB - 1) \ {3, 5} : registry[LightKey(j)] = "None"
    /\ sw_op.data = <<0, 0, 0, 255, 0, 255, 0, 0>>

(***************************************************************************)
(* Claims on the registry                                                   *)
(***************************************************************************)
\* C13 (no phantom light entries): decoding a light status frame leaves an
\* unregistered sub-device whose byte is not FF unregistered, gives a
\* sub-device whose byte is FF an entry with value true, and sets a
\* registered sub-device whose byte is 00 to false.
C13_NoPhantomEntries ==
    [][sw_op'.op = "status" =>
          \A j \in 0 .. NSUB - 1 :
              LET b == At(sw_op'.payload, j)
                  k == LightKey(j)
              IN  /\ (registry[k] = "None" /\ b # 255) => registry'[k] = "None"
                  /\ b = 255 => registry'[k] = "True"
                  /\ (registry[k] # "None" /\ b = 0) => registry'[k] = "False"]_vars

\* C13 witness: on an empty registry the payload FF 00 00 00 00 00 00 00
\* has created exactly one entry, sub-device 0 = true.
C13_Witness ==
    /\ sw_op.op = "status"
    /\ sw_op.payload = <<255, 0, 0, 0, 0, 0, 0, 0>>
    /\ registry = [k \in SwitchKeys |-> IF k = LightKey(0) THEN "True" ELSE "None"]

(***************************************************************************)
(* Claims on the thermostat                                                 *)
(***************************************************************************)
\* C14 (thermostat step learning): once a frame of a thermostat whose
\* setpoint is 21.5 degrees has been decoded, every state decoded later
\* reports temp_step = 0.5.
C14_StepLearning == th_half = 2 => th_last.temp_step = 5

(***************************************************************************)
(* Claims on shutdown                                                       *)
(***************************************************************************)
\* C15 (shutdown clears waiters and transport): at the step that completes
\* async_stop the sender loop is cancelled, _pendings is empty, no waiter
\* future is pending and the transport is not connected; from then on the
\* cancelled loops change neither the registry nor the waiters.
C15_ShutdownClears ==
    /\ [][(stop_pc # "stopped" /\ stop_pc' = "stopped") =>
              /\ s_pc' = "cancelled"
              /\ pendings' = <<>>
              /\ s_wfut' # "pending"
              /\ ~connected']_vars
    /\ [][stop_pc = "stopped" =>
              /\ UNCHANGED <<registry, pendings, s_wfut, s_pc, s_sends>>]_vars

\* C15 witness: async_stop has completed after it cancelled the sender
\* inside a confirmation wait.
C15_Witness ==
    /\ stop_pc = "stopped"
    /\ s_wfut = "cancelled"
    /\ s_item > 0
    /\ pendings = <<>>
    /\ ~connected

(***************************************************************************)
(* Claims on liveness                                                       *)
(***************************************************************************)
IsPending(c) == IF c <= Len(cmd) THEN fut[c] = "pending" ELSE FALSE
IsSettled(c) ==
    IF c <= Len(cmd) THEN fut[c] \in {"True", "False"} \/ ret[c] = "raised" ELSE FALSE

\* C16 (command liveness): while the gateway is running, every command
\* accepted by async_send_action is eventually resolved to True or False
\* (or its caller is cancelled), whatever the state of the transport.
C16_CommandLiveness ==
    \A c \in 1 .. MaxCallsL :
        [](IsPending(c) => <>(IsSettled(c) \/ stop_pc # "running"))

\* C16 witness: with the gateway running, a command submitted while the
\* transport was not connected was resolved False and a later one True.
C16_Witness ==
    /\ stop_pc = "running"
    /\ Len(cmd) = 2
    /\ fut[1] = "False" /\ ret[1] = "False"
    /\ fut[2] = "True" /\ ret[2] = "True"
    /\ failures = 0

(***************************************************************************)
(* Claims on the transport                                                  *)
(***************************************************************************)
\* C17 (EOF triggers reconnect): after recv has read EOF from a transport
\* that reports connected, a reconnect sequence (close, backoff sleep, open)
\* is eventually started.
C17_EofReconnect == eof_owed ~> ~eof_owed

\* C18 (sustained failure forces a reconnect): after the failure count has
\* reached the limit on a transport that reports connected, a reconnect
\* sequence (close, then open) is eventually started.
C18_FailureReconnect == esc_owed ~> ~esc_owed

\* a reconnect() call is made in this step: a created task runs, or the
\* reader finds the transport not connected
RcCallMade ==
    \/ rc_new' # rc_new /\ rc_new' \subseteq rc_new
    \/ r_pc = "loop" /\ ~connected /\ r_pc' # "loop"

\* C19 (single in-flight reconnect): at most one reconnect sequence is in
\* progress at any time, and a reconnect() call made while one is in
\* progress returns without closing, sleeping or opening.
C19_SingleReconnect ==
    /\ [](Len(rc_active) <= 1)
    /\ [][(Len(rc_active) >= 1 /\ RcCallMade) =>
              UNCHANGED <<rc_active, rc_hist, connected, last_reconn_delay, rc_lock>>]_vars

\* C19 witness: a reconnect() call has returned at the lock while the
\* sequence holding it is still asleep.
C19_Witness ==
    /\ rc_skipped
    /\ Len(rc_active) = 1
    /\ rc_active[1].pc = "sleep"

\* C20 (reconnect backoff): every delay slept is within [1, 30]; the first
\* attempt sleeps 1, an attempt after a failed attempt sleeps
\* min(2 * previous, 30), and an attempt after a successful open sleeps 1.
C20_Backoff ==
    \A n \in 1 .. Len(rc_hist) :
        /\ rc_hist[n].delay >= 1 /\ rc_hist[n].delay <= 30
        /\ n = 1 => rc_hist[n].delay = 1
        /\ (n > 1 /\ rc_hist[n - 1].result = "fail") =>
               rc_hist[n].delay = Min2(2 * rc_hist[n - 1].delay, 30)
        /\ (n > 1 /\ rc_hist[n - 1].result = "ok") => rc_hist[n].delay = 1

\* C20 witness: the delays grew 1, 2, 4, 8, 16, 30, the attempt that slept
\* 30 opened the connection, and the attempt after it slept 1.
C20_Witness ==
    /\ Len(rc_hist) = 7
    /\ \A n \in 1 .. 5 : rc_hist[n].result = "fail"
    /\ rc_hist[5].delay = 16
    /\ rc_hist[6].delay = 30 /\ rc_hist[6].result = "ok"
    /\ rc_hist[7].delay = 1

\* C21 (retry loop survives transport errors): when the transport is found
\* not connected at an attempt that is not the last one, the command is not
\* resolved at that point: the sender stays in the command's retry loop.
C21_RetrySurvives ==
    [][(s_pc = "idle_wait" /\ ~connected /\ retry_left(s_attempt)) =>
           (s_pc' # "get" /\ fut' = fut)]_vars

\* the sender resolves the future of call c with value v in this step
Resolved(c, v) == fut[c] = "pending" /\ fut'[c] = v

\* the counter after one more failure, as the claim states it
CountedUp == IF failures + 1 = 5 THEN 0 ELSE failures + 1

\* C22 as stated (consecutive-failure counter): every command resolved as
\* failed increases the one shared counter by one (back to zero at 5).
C22_EveryFailureCounts ==
    [][\A c \in 1 .. Len(cmd) : Resolved(c, "False") => failures' = CountedUp]_vars

\* C22 (consecutive-failure counter): the one counter is increased by one
\* each time an encoded command is resolved as failed, left alone when a
\* command is resolved as failed because it could not be encoded, and set
\* to zero on each success; at 5 a reconnect is requested and the counter
\* is set back to zero, so it is in 0..4 whenever the sender takes a command.
C22_FailureCounter ==
    /\ [](failures \in 0 .. 4)
    /\ [][/\ \A c \in 1 .. Len(cmd) :
              /\ Resolved(c, "True") => failures' = 0
              /\ (Resolved(c, "False") /\ generate_ok(cmd[c])) =>
                     /\ failures' = CountedUp
                     /\ failures + 1 = 5 => "sender" \in rc_new'
              /\ (Resolved(c, "False") /\ ~generate_ok(cmd[c])) =>
                     failures' = failures
          /\ fut' = fut => failures' = failures]_vars

\* C22 witness: the fifth failure in a row has set the counter back to zero
\* and requested the reconnect, after an encode failure in between.
C22_Witness ==
    /\ Len(taken) = 6
    /\ \A c \in 1 .. 6 : fut[c] = "False"
    /\ ~generate_ok(cmd[3])
    /\ failures = 0
    /\ "sender" \in rc_new

\* the waiter of a turn_on command is pending
PendingTurnOn ==
    /\ s_pc = "confirm"
    /\ s_wfut = "pending"
    /\ cmd[s_item].action = "turn_on"
    /\ \E i \in 1 .. Len(pendings) : pendings[i].owner = s_item

\* C23 (turn_on confirmation): while a turn_on on a light, a gas valve or an
\* elevator X is pending, a decoded state resolves its waiter exactly when
\* it is a state of X with value true.
C23_TurnOnConfirmation ==
    [][\A dev \in DevsG :
          (PendingTurnOn /\ OnDeviceStateOf(dev)) =>
              ((s_wfut' = "result") <=>
                   (dev.key = cmd[s_item].key /\ dev.state = TRUE))]_vars

\* the target temperatures a set_temperature command is called with, in
\* whole degrees
CmdTemps == {20, 21, 22}

\* the predicate of a pending set_temperature(T) on the thermostat holds
\* for the state decoded last
SetTempHit(T) ==
    build_expectation(THERMO_T, "set_temperature", float10(T), thermo_state(th_last))

\* C24 (set_temperature confirmation): for a thermostat frame decoded while
\* heating, the predicate of a pending set_temperature(T) holds when the
\* frame's target byte equals T, whatever target was stored before; for
\* any frame, it does not hold when the target byte differs from T.
C24_SetTemperature ==
    th_packet # <<>> =>
        \A T \in CmdTemps :
            LET payload == frame_payload(th_packet) IN
            /\ (At(payload, 0) \div 16 = 1 /\ At(payload, 2) = T) => SetTempHit(T)
            /\ At(payload, 2) # T => ~SetTempHit(T)

\* the actions the expectation table of a device type lists
ListedActions(dt) ==
    IF dt \in {"LIGHT", "LIGHTCUTOFF", "OUTLET", "ELEVATOR", "GASVALVE"}
    THEN {"turn_on", "turn_off"}
    ELSE IF dt = "VENTILATION" THEN {"turn_on", "turn_off", "set_preset", "set_percentage"}
    ELSE IF dt = "THERMOSTAT"
    THEN {"set_hvac", "set_preset", "set_temperature", "turn_on", "turn_off"}
    ELSE IF dt = "AIRCONDITIONER"
    THEN {"set_hvac", "set_fan", "set_preset", "set_temperature", "turn_on", "turn_off"}
    ELSE {}

\* C25 (unknown actions and query): the predicate of an action that the
\* device type's table does not list is false for every decoded state; the
\* predicate of "query" is true exactly for the decoded states whose
\* identity is the command's.
C25_UnknownAndQuery ==
    fn_op.op = "expect" =>
        /\ (fn_op.action # "query" /\ fn_op.action \notin ListedActions(fn_op.key.dt))
               => ~fn_op.hit
        /\ fn_op.action = "query" => (fn_op.hit <=> fn_op.dev.key = fn_op.key)

\* C25 witness: an action in no table was applied to a state of its own
\* identity, for a device type no table knows.
C25_Witness ==
    /\ fn_op.op = "expect"
    /\ fn_op.action = "toggle"
    /\ fn_op.key = MOTION_M
    /\ fn_op.dev.key = MOTION_M
    /\ ~fn_op.hit

\* the fields of a state dict that a command can set
ActuatorFields(dt) ==
    IF dt = "VENTILATION" THEN {"state", "preset_mode", "speed"}
    ELSE IF dt = "THERMOSTAT" THEN {"hvac_mode", "preset_mode", "target_temp"}
    ELSE {"hvac_mode", "fan_mode", "target_temp"}

\* C26 (query re-asserts state): decoding the payload generated for "query"
\* from a known registry state S of a ventilation, thermostat or air
\* conditioner identity gives back every actuator field of S.
C26_QueryReasserts ==
    fn_op.op = "query" =>
        \A f \in ActuatorFields(fn_op.key.dt) : fn_op.decoded[f] = fn_op.state[f]

\* C27 (light/outlet query has no side effect): the payload generated for
\* "query" on a light is eight 0x00 bytes whatever the registry holds for
\* the sub-devices of the room, and generating it changes no registry entry.
C27_QueryNoSideEffect ==
    /\ []((sw_op.op = "encode" /\ sw_op.action = "query") =>
              sw_op.data = <<0, 0, 0, 0, 0, 0, 0, 0>>)
    /\ [][(sw_op'.op = "encode" /\ sw_op'.action = "query") =>
              registry' = registry]_vars

\* C27 witness: a query for sub-device 0 was generated as eight zero bytes
\* while sub-devices 0 and 3 were known on and sub-device 5 known off.
C27_Witness ==
    /\ sw_op.op = "encode" /\ sw_op.action = "query" /\ sw_op.idx = 0
    /\ registry[LightKey(0)] = "True" /\ registry[LightKey(3)] = "True"
    /\ registry[LightKey(5)] = "False"
    /\ sw_op.data = <<0, 0, 0, 0, 0, 0, 0, 0>>

\* C28 (encode/decode checksum round trip): every packet generate_command
\* returns is 21 bytes, starts with AA 55, ends with 0D 0D, has at byte 18
\* the sum of bytes 2..17 mod 256, and is extracted by feed() as one frame
\* that passes the checksum test of _dispatch_packet.
C28_ChecksumRoundTrip ==
    fn_op.op = "packet" =>
        LET p == fn_op.packet IN
        /\ Len(p) = 21
        /\ At(p, 0) = 170 /\ At(p, 1) = 85
        /\ At(p, 19) = 13 /\ At(p, 20) = 13
        /\ At(p, 18) = SumSeq(Slice(p, 2, 18)) % 256
        /\ fn_op.fed = <<p>>
        /\ checksum_ok(p)

\* C28 witness: turn_on of light 0 of room 1 with light 1 known on gave
\* AA 55 30 BC 00 0E 01 01 00 00 FF FF 00 .. 00 with checksum 0xFA.
C28_Witness ==
    /\ fn_op.op = "packet"
    /\ fn_op.packet = <<170, 85, 48, 188, 0, 14, 1, 1, 0, 0,
                         255, 255, 0, 0, 0, 0, 0, 0, 250, 13, 13>>
    /\ fn_op.fed = <<fn_op.packet>>

\* the platforms whose index holds the unique_id of key k
IndexedUnder(k) ==
    {p \in DOMAIN ereg.by_platform : unique_id(k) \in DOMAIN ereg.by_platform[p]}

\* C29 (registry platform index consistency): every identity in the states
\* map is indexed under exactly one platform, the platform of its current
\* DeviceState, and the indexed object is the one in the states map; an
\* upsert that changes the platform removes the entry under the old one.
C29_IndexConsistency ==
    /\ [](\A k \in DOMAIN ereg.states :
            /\ IndexedUnder(k) = {ereg.states[k].platform}
            /\ ereg.by_platform[ereg.states[k].platform][unique_id(k)] = ereg.states[k])
    /\ [][\A k \in DOMAIN ereg.states :
              (k \in DOMAIN ereg'.states
               /\ ereg'.states[k].platform # ereg.states[k].platform) =>
                  unique_id(k) \notin DOMAIN ereg'.by_platform[ereg.states[k].platform]]_vars

\* C29 witness: light X, first upserted as a light, is now held as a switch,
\* and the light index that once held it is empty.
C29_Witness ==
    /\ LIGHT_X \in DOMAIN ereg.states
    /\ ereg.states[LIGHT_X].platform = "switch"
    /\ "light" \in DOMAIN ereg.by_platform
    /\ DOMAIN ereg.by_platform["light"] = {}
    /\ ereg.last = [op |-> "promote", ret |-> <<FALSE>>]

\* C30 (registry never deletes): an identity that is in the registry's
\* states map stays in it, whatever step is taken: a decoded state, a
\* command, a timeout, a reconnect or the shutdown.
C30_NeverDeletes ==
    [][\A k \in DOMAIN registry :
          registry[k] # "None" => registry'[k] # "None"]_vars

\* C30 witness: light X is still registered, with value false, after a
\* command on it has failed and the gateway has been stopped.
C30_Witness ==
    /\ registry[LIGHT_X] = "False"
    /\ \E c \in 1 .. Len(cmd) : cmd[c].key = LIGHT_X /\ fut[c] = "False"
    /\ stop_pc = "stopped"

\* a waiter of the list that the step takes out of it
Removed(w) ==
    /\ \E i \in 1 .. Len(pendings) : pendings[i] = w
    /\ \A i \in 1 .. Len(pendings') : pendings'[i] # w

\* C31 (no waiter leak): every waiter of the list belongs to a
\* _wait_for_confirmation that is still waiting, so a wait that has ended
\* (matched, timed out or cancelled) has left no waiter behind; and a waiter
\* leaves the list only in a step where a report matches it, where its own
\* timeout fires, or where the gateway's stop cancels the wait.
C31_NoWaiterLeak ==
    /\ [](\A i \in 1 .. Len(pendings) :
            /\ s_pc = "confirm"
            /\ pendings[i].owner = s_item
            /\ pendings[i].attempt = s_attempt)
    /\ [][\A i \in 1 .. Len(pendings) :
              Removed(pendings[i]) =>
                  \/ s_wfut = "pending" /\ s_wfut' = "result"
                  \/ s_pc = "confirm" /\ s_wfut = "pending" /\ s_pc' \in {"gap", "get"}
                  \/ stop_pc' # stop_pc]_vars

\* C31 witness: the first attempt of a command has timed out with no
\* matching report; the sender sleeps the retry gap and the list is empty.
C31_Witness ==
    /\ s_pc = "gap"
    /\ s_attempt = 1
    /\ s_sends = 1
    /\ pendings = <<>>

\* the bytes _split_buf works on in the feed() of this step
FedBuffer == rb_append(rx_buf, SubSeq(stream, pos + 1, pos'))

\* C32 (bounded framing buffer): after every feed() the buffer holds fewer
\* than PACKET_LEN bytes and is empty or begins with the prefix AA 55; a
\* feed() after which the buffered bytes hold no prefix discards them all.
C32_BoundedBuffer ==
    /\ [](/\ Len(rx_buf) < PACKET_LEN
          /\ rx_buf = <<>> \/ rb_peek(rx_buf, 2) = PACKET_PREFIX)
    /\ [][(pos' > pos /\ rb_find(FedBuffer, PACKET_PREFIX) < 0) => rx_buf' = <<>>]_vars

\* C32 witness: noise holding the byte AA has been fed and discarded, no
\* packet has come out, and the buffer is empty.
C32_Witness ==
    /\ pos > 0
    /\ \E i \in 1 .. pos : stream[i] = 170
    /\ out = <<>>
    /\ rx_buf = <<>>

FloorEmitted == \E i \in 1 .. Len(el_states) : el_states[i].key.sub = "FLOOR"

Transmits == i_pc # "drain" /\ i_pc' = "drain"

NewlyPassed == {e[1] : e \in rep' \ rep}

C37_NoLostConfirmation ==
    \A c \in 1 .. Len(cmd) : <<c, "drain">> \in rep => fut[c] # "False"

\* C38 (transport stays closed after stop): once async_stop has completed
\* the transport is not connected, whatever reconnect() task made before
\* the stop is still running, and no packet is written.
C38_StaysClosed ==
    /\ [](stop_pc = "stopped" => ~connected)
    /\ [][stop_pc = "stopped" => s_sends' = s_sends]_vars

\* C39 (on_device_state signals): an identity has had exactly one new-device
\* signal if it is registered and none otherwise, and that signal is sent by
\* the decode that inserts it; a decode sends device-updated exactly when
\* its identity was registered and the stored DeviceState (platform, state,
\* attribute) differs from the decoded one; a decode that is refused
\* insertion or changes nothing sends no signal.
C39_Signals ==
    /\ \A k \in IdxKeys : disp.new[k] = IF k \in DOMAIN ereg.states THEN 1 ELSE 0
    /\ disp.last.op = "decode" =>
          /\ "new_device" \in disp.last.sent <=> ~disp.last.had /\ disp.last.allow
          /\ "device_updated" \in disp.last.sent <=> disp.last.had /\ disp.last.differs
          /\ (~disp.last.had /\ ~disp.last.allow) => disp.last.sent = {}
          /\ (disp.last.had /\ ~disp.last.differs) => disp.last.sent = {}
          /\ disp.last.sent \subseteq {"new_device", "device_updated"}

\* light X is registered by one new-device signal, and the decode processed
\* last changed its stored state and sent device-updated
C39_Witness ==
    /\ disp.new[LIGHT_X] = 1
    /\ disp.last.op = "decode"
    /\ disp.last.dev.key = LIGHT_X
    /\ disp.last.had /\ disp.last.differs
    /\ disp.last.sent = {"device_updated"}

\* C40 (one waiter, of the current command): in every reachable state the
\* pending-waiter list holds at most one waiter, and when it holds one, the
\* sender loop is in the confirmation wait of a command it took from the
\* queue and the waiter's key is that command's key.
C40_SingleWaiter ==
    /\ Len(pendings) <= 1
    /\ pendings # <<>> =>
          /\ s_pc = "confirm"
          /\ s_item \in 1 .. Len(cmd)
          /\ pendings[1].key = cmd[s_item].key

\* C40 witness: the second command taken from the queue is in its second
\* attempt and its waiter is the only one in the list.
C40_Witness ==
    /\ Len(pendings) = 1
    /\ s_item = 2
    /\ s_attempt = 2
    /\ s_pc = "confirm"
    /\ pendings[1].key = cmd[2].key

====
